---- MODULE Spec2Model ----
(***************************************************************************)
(* Deployment orchestration of the mech quickstart: run_service.main, the  *)
(* service registrar get_service, the agent factory step deploy_mech, the  *)
(* metadata validator, the prompts of get_local_config and the stop        *)
(* command, as state machines over the operator's home directory           *)
(* (.mech_quickstart) and the chain.                                       *)
(*                                                                         *)
(* Amounts are scaled so that TLC's integers hold them: native balances    *)
(* are counted in units of 0.25 xDAI (2.5 * 10^17 wei), staking-token      *)
(* balances in units of 50 OLAS (5 * 10^19 wei).                           *)
(***************************************************************************)
EXTENDS Integers, Sequences, FiniteSets, TLC

(***************************************************************************)
(* Bounds of the model.                                                    *)
(***************************************************************************)
\* invocations of the start command that are explored
MaxRuns == 2
\* polls of one funding gate within one run that are told apart
MaxPolls == 3
\* largest balance an observation returns (in the units above)
MaxBal == 3
\* calls of deploy_mech that are explored
MaxMechCalls == 2

(***************************************************************************)
(* Program constants.                                                      *)
(***************************************************************************)
\* CHAIN_ID_TO_METADATA[100]["firstTimeTopUp"] = unit_to_wei(0.5)
FirstTimeTopUp == 2
\* CHAIN_ID_TO_METADATA[100]["operationalFundReq"] = unit_to_wei(0.5)
OperationalFundReq == 2
\* COST_OF_STAKING = 10**20
COST_OF_STAKING == 2
\* COST_OF_BOND_STAKING = 5 * 10**19
COST_OF_BOND_STAKING == 1
\* "use_staking": True in get_service_template
UseStaking == TRUE

None == 0
Hashes == {1, 2}
Balances == 0..MaxBal
OnChainStates == {"NON_EXISTENT", "PRE_REGISTRATION", "DEPLOYED"}

VARIABLES
    \* ---- the home directory (.mech_quickstart), kept between runs
    userAccount,      \* user.json exists (operate.user_account is not None)
    walletExists,     \* wallet_manager.exists(ETHEREUM)
    safes,            \* wallet.safes.get(chain_type) is not None
    index,            \* manager.json: the hashes of the local services
    mechHash,         \* local_config.json: mech_hash (None when unset)
    agentId,          \* local_config.json: agent_id (None when unset)
    mechAddress,      \* local_config.json: mech_address (None when unset)
    \* ---- the chain
    onChainState,     \* what _get_on_chain_state answers for the service
    \* ---- one invocation of main
    pc,               \* where the run stands
    password,         \* the local `password` of main: "unbound" or "set"
    service_exists,   \* line 610
    safe_exists,      \* line 619
    required_key,     \* which entry of chain_metadata line 620 selected
    walletReads,      \* the balances the wallet gate's loop read, in order
    safeFirstRead,    \* first balance the safe funding loop read (-1: none)
    safeLastRead,     \* last balance the safe funding loop read (-1: none)
    safePolls,        \* reads of the safe funding loop in this run
    olasLastRead,     \* last balance the staking gate's loop read (-1: none)
    olasPolls,        \* reads of the staking gate's loop in this run
    lastBranch,       \* the branch get_service took in this run
    reported,         \* the balance of the last 'updated balance' message (-1: none)
    steps,            \* the steps this run has begun, in the order they began
    raised,           \* the step whose call raised in this run ("none": no one)
    mnemonic,         \* the mnemonic of a new wallet: "none", "shown", "acked"
    \* ---- history
    runs,             \* invocations started
    accountCreations, \* successful UserAccount.new calls
    walletCreations,  \* successful wallet_manager.create calls
    safeCreations,    \* successful wallet.create_safe calls
    transfers,        \* wallet.transfer calls of the current run
    updateCalls,      \* manager.update_service calls, as <<old, new>>
    mechCreates,      \* factory create transactions settled by deploy_mech
    \* ---- one call of __validate_metadata_file
    doc,              \* the metadata document that json.load returned
    result,           \* what the call returned (NoResult before the call)
    \* ---- local_config.json and one call of get_local_config
    file,             \* local_config.json: field -> value (None: absent or null)
    file0,            \* local_config.json as the current call found it
    cfg,              \* the MechQuickstartConfig object of the call
    cfgModule,        \* the module whose get_local_config is running
    cfgPc,            \* where the call stands
    cfgIdx,           \* the field the call has come to
    lastInput,        \* the operator's entry the api_keys loop evaluates
    errors,           \* 'Please enter a valid dict' messages of the call
    cfgRuns,          \* calls of get_local_config begun
    \* deploy_mech's argument of `create`
    hashText,         \* local_config.metadata_hash, a sequence of characters
    mechBytes,        \* the bytes handed to the factory's `create`
    \* stop_service.main
    stopPc,           \* where the stop command stands
    configFile,       \* whether .mech_quickstart/local_config.json exists
    deployment,       \* whether the service's deployment directory exists
    dbSource,         \* deployment/persistent_data/logs/mech.db (0: no file)
    dbTarget,         \* mech.db in the working directory (0: no file)
    stopTrace,        \* what the stop command has done, in order
    stops,            \* stop commands begun
    stopCalls,        \* the calls the stop command has made
    dbAtStop,         \* the database the last stop command copied (0: none)
    startPc,          \* where the start of the service stands
    startTrace,       \* what the start has done to the deployment, in order
    \* two invocations of run_service.py at once
    rPc,              \* where each invocation stands
    rCfg,             \* the configuration object of each invocation
    rSeen,            \* the safe_exists each invocation computed
    rFile,            \* local_config.json (0: no file, p: as p stored it)
    rSafe,            \* whether the wallet on disk holds a Safe
    rSafeCalls,       \* calls of wallet.create_safe
    rStores,          \* the invocations that stored, in order
    \* setup_metadata_hash
    setupPc,          \* where setup_metadata_hash stands
    cfgHash,          \* metadata_hash of the configuration object
    fileHash,         \* metadata_hash in local_config.json
    \* get_service on a template
    tmpl,             \* the service template handed to get_service
    tmplIndex,        \* the records of manager.json
    tmplBranch,       \* the branch get_service took ("none": not called)
    \* apply_env_vars
    environ,          \* os.environ: key -> value
    envMap,           \* env_vars of main
    envApplied,       \* whether apply_env_vars has returned
    \* estimate_priority_fee
    feeRewards,       \* the rewards of the fee history, one per block
    feeDefault,       \* default_priority_fee: <<>> for None, <<n>> for n
    feeBoundary,      \* priority_fee_increase_boundary
    feeResult         \* what the call returned or raised

diskVars == <<userAccount, walletExists, safes, index, mechHash, agentId,
              mechAddress>>
runVars == <<pc, password, service_exists, safe_exists, required_key,
             walletReads, safeFirstRead, safeLastRead, safePolls,
             olasLastRead, olasPolls, lastBranch, reported, steps, raised,
             mnemonic>>
histVars == <<runs, accountCreations, walletCreations, safeCreations,
              transfers, updateCalls, mechCreates>>
mainVars == <<diskVars, onChainState, runVars, histVars>>
validatorVars == <<doc, result>>
configVars == <<file, file0, cfg, cfgModule, cfgPc, cfgIdx, lastInput, errors,
                cfgRuns>>
hashVars == <<hashText, mechBytes>>
stopVars == <<stopPc, configFile, deployment, dbSource, dbTarget, stopTrace,
              stops, stopCalls, dbAtStop, startPc, startTrace>>
raceVars == <<rPc, rCfg, rSeen, rFile, rSafe, rSafeCalls, rStores>>
setupVars == <<setupPc, cfgHash, fileHash>>
tmplVars == <<tmpl, tmplIndex, tmplBranch>>
envVars == <<environ, envMap, envApplied>>
feeVars == <<feeRewards, feeDefault, feeBoundary, feeResult>>
auxVars == <<hashVars, stopVars, raceVars, setupVars, tmplVars, envVars,
             feeVars>>
vars == <<mainVars, validatorVars, configVars, auxVars>>

Terminal == {"done", "exit1", "error", "interrupted"}

Last(s) == s[Len(s)]
Range(s) == {s[i] : i \in 1..Len(s)}

\* the record of steps with the step x, entered when it begins first
Mark(s, x) == IF x \in Range(s) THEN s ELSE Append(s, x)

\* the reads of a gate that are remembered: the last MaxPolls ones
Remember(s, b) ==
    IF Len(s) < MaxPolls THEN Append(s, b) ELSE Append(Tail(s), b)

\* a count of polls, exact up to MaxPolls
CountPoll(n) == IF n < MaxPolls THEN n + 1 ELSE n

(***************************************************************************)
(* Service registrar: get_service (run_service.py 502-525, the same text  *)
(* in utils.py 436-459).  manager.load_or_create and                      *)
(* manager.update_service belong to the operate library; they are modelled *)
(* by their effect on the local service index.                             *)
(***************************************************************************)
\* get_service with the migration left out: a template of another hash
\* gets a record of its own
GetServiceBranch_CreateOnChange(idx, h) ==
    IF Len(idx) > 0
    THEN IF idx[1] = h THEN "load" ELSE "create"
    ELSE "create"

\* get_service with the comparison of the hashes left out: an existing
\* record is always migrated
GetServiceBranch_AlwaysUpdate(idx, h) ==
    IF Len(idx) > 0 THEN "update" ELSE "create"

\* get_service with the comparison of the hashes inverted
GetServiceBranch_Inverted(idx, h) ==
    IF Len(idx) > 0
    THEN IF idx[1] # h THEN "load" ELSE "update"
    ELSE "create"

\* the branch get_service takes for the index idx and the template hash h
GetServiceBranch(idx, h) ==
    IF Len(idx) > 0
    THEN IF idx[1] = h THEN "load" ELSE "update"
    ELSE "create"

\* manager.load_or_create(hash = h): loads the record when there is one
LoadOrCreate(idx, h) ==
    IF h \in Range(idx) THEN idx ELSE Append(idx, h)

\* manager.update_service(old_hash, new_hash): the record of old_hash is
\* replaced by a record of new_hash
UpdateService(idx, old, new) ==
    LoadOrCreate(SelectSeq(idx, LAMBDA x : x # old), new)

\* the index get_service leaves behind
GetServiceIndex(idx, h) ==
    IF GetServiceBranch(idx, h) = "update"
    THEN UpdateService(idx, idx[1], h)
    ELSE LoadOrCreate(idx, h)

(***************************************************************************)
(* The decisions of main.                                                  *)
(***************************************************************************)
\* line 564: the account is created
CreatesAccount(accountPresent) == ~accountPresent

\* line 577: the wallet is created
CreatesWallet(walletPresent) == ~walletPresent

\* line 640 without its test: the Safe is created on every run
CreatesSafe_Always(safeExists) == TRUE

\* line 640: the Safe is created
CreatesSafe(safeExists) == ~safeExists

\* line 610-612
ServiceExists(state) == state # "NON_EXISTENT"

\* line 620-624 with the two thresholds exchanged
RequiredKey_Swapped(safeExists) ==
    IF safeExists THEN "firstTimeTopUp" ELSE "operationalFundReq"

\* line 620-624: the entry of chain_metadata that gives required_balance
RequiredKey(safeExists) ==
    IF ~safeExists THEN "firstTimeTopUp" ELSE "operationalFundReq"

\* CHAIN_ID_TO_METADATA[100][key]
ChainMetadata(key) ==
    IF key = "firstTimeTopUp" THEN FirstTimeTopUp ELSE OperationalFundReq

\* line 631 with <= for <: the gate waits on at the required balance
WalletGateWaits_AtRequired(balance, required) == balance <= required

\* line 631: the wallet gate keeps waiting
WalletGateWaits(balance, required) == balance < required

\* line 665 with <= for <: a transfer is made at the threshold too
SafeLoopTransfers_AtThreshold(balance) == balance <= FirstTimeTopUp

\* line 665: the safe funding loop makes another transfer
SafeLoopTransfers(balance) == balance < FirstTimeTopUp

\* line 680 without `and not service_exists`
StakingGateApplies_AnyService(useStaking, serviceExists) == useStaking

\* line 680
StakingGateApplies(useStaking, serviceExists) ==
    useStaking /\ ~serviceExists

\* line 692-695 with the cost of staking left out of the threshold
StakingGateWaits_OnlyBond(balance) == balance < COST_OF_BOND_STAKING

\* line 692-695 with the bond left out of the threshold
StakingGateWaits_NoBond(balance) == balance < COST_OF_STAKING

\* line 692-695: the staking gate keeps waiting
StakingGateWaits(balance) ==
    balance < COST_OF_STAKING + COST_OF_BOND_STAKING

(***************************************************************************)
(* Initial states.  The home directory is an input of the program: it is  *)
(* empty on a first installation, and may hold an account, a wallet, a     *)
(* Safe and a registered service left by earlier invocations.              *)
(***************************************************************************)
\* no run was made yet
NoRun ==
    /\ agentId = None
    /\ mechAddress = None
    /\ raised = "none"
    /\ mnemonic = "none"
    /\ pc = "idle"
    /\ password = "unbound"
    /\ service_exists = FALSE
    /\ safe_exists = FALSE
    /\ required_key = "none"
    /\ walletReads = <<>>
    /\ safeFirstRead = -1
    /\ safeLastRead = -1
    /\ safePolls = 0
    /\ olasLastRead = -1
    /\ olasPolls = 0
    /\ lastBranch = "none"
    /\ reported = -1
    /\ steps = <<>>
    /\ runs = 0
    /\ accountCreations = 0
    /\ walletCreations = 0
    /\ safeCreations = 0
    /\ transfers = 0
    /\ updateCalls = <<>>
    /\ mechCreates = 0

\* the home directory as the first run finds it
MainInit ==
    /\ userAccount \in BOOLEAN
    /\ walletExists \in BOOLEAN
    /\ safes \in BOOLEAN
    /\ safes => walletExists
    /\ \/ index = <<>> /\ mechHash = None /\ onChainState = "NON_EXISTENT"
       \/ index = <<1>> /\ mechHash = 1
          /\ onChainState \in {"NON_EXISTENT", "DEPLOYED"}
    /\ NoRun

\* an empty home directory, no run
MainFresh ==
    /\ userAccount = FALSE
    /\ walletExists = FALSE
    /\ safes = FALSE
    /\ index = <<>>
    /\ mechHash = None
    /\ onChainState = "NON_EXISTENT"
    /\ NoRun

\* no document is being validated
NoDocument == [ty |-> <<>>, tools |-> <<>>, req |-> <<>>]

NoResult ==
    [status |-> "none", kind |-> "", key |-> "", at |-> "", expected |-> "",
     actual |-> "", n1 |-> 0, n2 |-> 0]

ValidatorIdle ==
    /\ doc = NoDocument
    /\ result = NoResult

\* the fields of local_config.json: those of MechQuickstartConfig in
\* run_service.py (139-151) and in utils.py (46-60)
RunServiceFields ==
    {"gnosis_rpc", "home_chain_id", "api_keys", "tools_to_packages_hash",
     "mech_to_subscription", "mech_to_config", "mech_hash"}

UtilsFields ==
    {"gnosis_rpc", "password_migrated", "use_staking", "api_keys_path",
     "metadata_hash", "agent_id", "mech_address", "tools_to_packages_hash",
     "mech_hash", "home_chain_id"}

Fields == RunServiceFields \cup UtilsFields

\* the value of a field that is absent or null; the other values are "old"
\* (in the file before the calls) and "new" (obtained by a call)
Null == "null"

\* no call of get_local_config was made, the file is absent
ConfigIdle ==
    /\ file = [f \in Fields |-> Null]
    /\ file0 = [f \in Fields |-> Null]
    /\ cfg = [f \in Fields |-> Null]
    /\ cfgModule = "none"
    /\ cfgPc = "idle"
    /\ cfgIdx = 0
    /\ lastInput = "none"
    /\ errors = 0
    /\ cfgRuns = 0

\* the processes of two invocations at once
Procs == {1, 2}

\* no metadata hash is converted
HashIdle ==
    /\ hashText = <<>>
    /\ mechBytes = <<>>

\* no stop command runs
StopIdle ==
    /\ stopPc = "idle"
    /\ configFile = FALSE
    /\ deployment = FALSE
    /\ dbSource = 0
    /\ dbTarget = 0
    /\ stopTrace = <<>>
    /\ stops = 0
    /\ stopCalls = {}
    /\ dbAtStop = 0
    /\ startPc = "none"
    /\ startTrace = <<>>

\* no two invocations run at once
RaceIdle ==
    /\ rPc = [p \in Procs |-> "idle"]
    /\ rCfg = [p \in Procs |-> 0]
    /\ rSeen = [p \in Procs |-> FALSE]
    /\ rFile = 0
    /\ rSafe = FALSE
    /\ rSafeCalls = 0
    /\ rStores = <<>>

\* setup_metadata_hash is not running
SetupIdle ==
    /\ setupPc = "idle"
    /\ cfgHash = None
    /\ fileHash = None

\* get_service is not called on a template
TemplateIdle ==
    /\ tmpl = <<>>
    /\ tmplIndex = <<>>
    /\ tmplBranch = "none"

\* apply_env_vars is not called
EnvIdle ==
    /\ environ = <<>>
    /\ envMap = <<>>
    /\ envApplied = FALSE

\* what estimate_priority_fee gave: nothing yet, an int, None, a TypeError
NoFee == [kind |-> "pending", v |-> 0]
FeeValue(n) == [kind |-> "value", v |-> n]
FeeNone == [kind |-> "None", v |-> 0]
FeeTypeError == [kind |-> "TypeError", v |-> 0]

\* estimate_priority_fee is not called
FeeIdle ==
    /\ feeRewards = <<>>
    /\ feeDefault = <<>>
    /\ feeBoundary = 0
    /\ feeResult = NoFee

AuxIdle ==
    /\ HashIdle /\ StopIdle /\ RaceIdle
    /\ SetupIdle /\ TemplateIdle /\ EnvIdle /\ FeeIdle

Init == MainInit /\ ValidatorIdle /\ ConfigIdle /\ AuxIdle

(***************************************************************************)
(* main (run_service.py 545-759), one action per blocking step.            *)
(***************************************************************************)
\* line 545-556: a new invocation; the locals of main are fresh
StartRun ==
    /\ pc \in Terminal \cup {"idle"}
    /\ runs < MaxRuns
    /\ runs' = runs + 1
    /\ pc' = "get_local_config"
    /\ password' = "unbound"
    /\ service_exists' = FALSE
    /\ safe_exists' = FALSE
    /\ required_key' = "none"
    /\ walletReads' = <<>>
    /\ safeFirstRead' = -1
    /\ safeLastRead' = -1
    /\ safePolls' = 0
    /\ olasLastRead' = -1
    /\ olasPolls' = 0
    /\ lastBranch' = "none"
    /\ reported' = -1
    /\ transfers' = 0
    /\ UNCHANGED <<diskVars, onChainState, accountCreations, walletCreations,
                   safeCreations, updateCalls, mechCreates>>
    /\ steps' = <<>>
    /\ raised' = "none"
    /\ mnemonic' = "none"
    /\ UNCHANGED <<validatorVars, configVars, auxVars>>

\* line 558, get_local_config 386-401: mech_hash is asked for only when it
\* is unset, then the configuration is stored
GetLocalConfig ==
    /\ pc = "get_local_config"
    /\ IF mechHash = None
       THEN \E h \in Hashes : mechHash' = h
       ELSE mechHash' = mechHash
    /\ pc' = "get_service"
    /\ UNCHANGED <<userAccount, walletExists, safes, index, agentId,
                   onChainState, password, service_exists, safe_exists,
                   required_key, walletReads, safeFirstRead, safeLastRead,
                   safePolls, olasLastRead, olasPolls, lastBranch, reported,
                   histVars>>
    /\ UNCHANGED steps
    /\ UNCHANGED mechAddress
    /\ UNCHANGED raised
    /\ UNCHANGED mnemonic
    /\ UNCHANGED <<validatorVars, configVars, auxVars>>

\* line 559-561: the template's hash is mech_hash; get_service
GetService ==
    /\ pc = "get_service"
    /\ lastBranch' = GetServiceBranch(index, mechHash)
    /\ index' = GetServiceIndex(index, mechHash)
    /\ updateCalls' = IF GetServiceBranch(index, mechHash) = "update"
                      THEN Append(updateCalls, <<index[1], mechHash>>)
                      ELSE updateCalls
    /\ pc' = "account"
    /\ UNCHANGED <<userAccount, walletExists, safes, mechHash, agentId,
                   onChainState, password, service_exists, safe_exists,
                   required_key, walletReads, safeFirstRead, safeLastRead,
                   safePolls, olasLastRead, olasPolls, reported, runs,
                   accountCreations,
                   walletCreations, safeCreations, transfers, mechCreates>>
    /\ UNCHANGED steps
    /\ UNCHANGED mechAddress
    /\ UNCHANGED raised
    /\ UNCHANGED mnemonic
    /\ UNCHANGED <<validatorVars, configVars, auxVars>>

\* the local variables of main that only the gates write
gateVars == <<walletReads, safeFirstRead, safeLastRead, safePolls,
              olasLastRead, olasPolls, reported>>

\* line 653-654 and 680: the step after the Safe is resolved
AfterSafeFund(serviceExists) ==
    IF StakingGateApplies(UseStaking, serviceExists)
    THEN "staking_gate" ELSE "deploy"

\* line 654 with its test inverted: the Safe is funded for a known service
AfterSafeResolved_Inverted(serviceExists) ==
    IF serviceExists THEN "safe_fund" ELSE AfterSafeFund(serviceExists)

AfterSafeResolved(serviceExists) ==
    IF ~serviceExists THEN "safe_fund" ELSE AfterSafeFund(serviceExists)

\* UserAccount.new called before the two entries are compared
AccountMade_BeforeConfirm(match) == TRUE

\* line 209-217, 566-570: ask_confirm_password returns only when the two
\* entries are equal, and UserAccount.new comes after its return
AccountMade(match) == match

\* line 563-572: the account is created when operate.user_account is None;
\* ask_confirm_password exits with status 1 when the two entries differ
AccountStep ==
    /\ pc = "account"
    /\ IF CreatesAccount(userAccount)
       THEN \E match \in BOOLEAN :
              IF match
              THEN /\ userAccount' = AccountMade(match)
                   /\ accountCreations' = accountCreations + 1
                   /\ password' = "set"
                   /\ pc' = "set_password"
              ELSE /\ pc' = "exit1"
                   /\ userAccount' = AccountMade(match)
                   /\ accountCreations' =
                        IF AccountMade(match) THEN accountCreations + 1
                        ELSE accountCreations
                   /\ UNCHANGED password
       ELSE /\ pc' = "set_password"
            /\ UNCHANGED <<userAccount, accountCreations, password>>
    /\ UNCHANGED <<walletExists, safes, index, mechHash, agentId,
                   onChainState, service_exists, safe_exists, required_key,
                   gateVars, lastBranch, runs, walletCreations,
                   safeCreations, transfers, updateCalls, mechCreates>>
    /\ UNCHANGED steps
    /\ UNCHANGED mechAddress
    /\ UNCHANGED raised
    /\ UNCHANGED mnemonic
    /\ UNCHANGED <<validatorVars, configVars, auxVars>>

\* line 574: operate.password = password reads the local `password`, which
\* is bound only by line 566
SetPassword ==
    /\ pc = "set_password"
    /\ pc' = IF password = "set" THEN "wallet" ELSE "error"
    /\ UNCHANGED <<diskVars, onChainState, password, service_exists,
                   safe_exists, required_key, gateVars, lastBranch, histVars>>
    /\ UNCHANGED steps
    /\ raised' = IF pc' = "error" THEN pc ELSE raised
    /\ UNCHANGED mnemonic
    /\ UNCHANGED <<validatorVars, configVars, auxVars>>

\* line 589 left out: the run goes on without the operator's enter
AfterWallet_NoAcknowledgment(created) == "chain"

\* line 577-592: after the mnemonic of a new wallet was printed the run
\* waits at input("Press enter to continue..."); a wallet that exists is
\* loaded
AfterWallet(created) == IF created THEN "wallet_ack" ELSE "chain"

\* line 576-588, 591-593: the wallet is created when absent and its
\* mnemonic is printed; it is loaded otherwise
WalletStep ==
    /\ pc = "wallet"
    /\ IF CreatesWallet(walletExists)
       THEN /\ walletExists' = TRUE
            /\ walletCreations' = walletCreations + 1
            /\ mnemonic' = "shown"
       ELSE UNCHANGED <<walletExists, walletCreations, mnemonic>>
    /\ pc' = AfterWallet(CreatesWallet(walletExists))
    /\ UNCHANGED <<userAccount, safes, index, mechHash, agentId,
                   onChainState, password, service_exists, safe_exists,
                   required_key, gateVars, lastBranch, runs,
                   accountCreations, safeCreations, transfers, updateCalls,
                   mechCreates>>
    /\ UNCHANGED steps
    /\ UNCHANGED mechAddress
    /\ UNCHANGED raised
    /\ UNCHANGED <<validatorVars, configVars, auxVars>>

\* line 589: the operator presses enter
AckMnemonic ==
    /\ pc = "wallet_ack"
    /\ mnemonic' = "acked"
    /\ pc' = "chain"
    /\ UNCHANGED <<diskVars, onChainState, password, service_exists,
                   safe_exists, required_key, gateVars, lastBranch, steps,
                   raised, histVars>>
    /\ UNCHANGED <<validatorVars, configVars, auxVars>>

\* whether main calls check_rpc before it turns to the chain: line 545-615
\* hold no call of it
MainProbesRpc == FALSE

\* line 598-627: the on-chain state is queried, the wallet balance is read
\* for display, safe_exists and required_balance are set; the query and the
\* read may raise
ChainStep ==
    /\ pc = "chain"
    /\ \/ /\ service_exists' = ServiceExists(onChainState)
          /\ safe_exists' = safes
          /\ required_key' = RequiredKey(safes)
          /\ pc' = "wallet_gate"
       \/ /\ pc' = "error"
          /\ UNCHANGED <<service_exists, safe_exists, required_key>>
    /\ UNCHANGED <<diskVars, onChainState, password, gateVars, lastBranch,
                   histVars>>
    /\ steps' = Mark(IF MainProbesRpc THEN Mark(steps, "check_rpc") ELSE steps,
                     "query")
    /\ raised' = IF pc' = "error" THEN pc ELSE raised
    /\ UNCHANGED mnemonic
    /\ UNCHANGED <<validatorVars, configVars, auxVars>>

\* a balance read of a gate's loop that is caught and made again
AfterReadFailure_Retried(gate) == gate

\* line 631, 665, 693: an exception of get_balance or get_erc20_balance in
\* the loop of a gate is not caught: it leaves main
AfterReadFailure(gate) == "error"

\* line 631-632: one poll of the wallet gate
WalletGatePoll ==
    /\ pc = "wallet_gate"
    /\ \/ \E b \in Balances :
            /\ walletReads' = Remember(walletReads, b)
            /\ pc' = IF WalletGateWaits(b, ChainMetadata(required_key))
                     THEN "wallet_gate" ELSE "wallet_report"
            /\ UNCHANGED raised
       \/ /\ pc' = AfterReadFailure("wallet_gate")
          /\ raised' = "wallet_gate"
          /\ UNCHANGED walletReads
    /\ UNCHANGED <<diskVars, onChainState, password, service_exists,
                   safe_exists, required_key, safeFirstRead, safeLastRead,
                   safePolls, olasLastRead, olasPolls, reported, lastBranch,
                   histVars>>
    /\ steps' = Mark(steps, "wallet_gate")
    /\ UNCHANGED mnemonic
    /\ UNCHANGED <<validatorVars, configVars, auxVars>>

\* line 634-637: the balance is read again for the success message
WalletReport ==
    /\ pc = "wallet_report"
    /\ \/ \E b \in Balances :
            /\ reported' = b
            /\ pc' = IF CreatesSafe(safe_exists) THEN "create_safe"
                     ELSE AfterSafeResolved(service_exists)
       \/ /\ pc' = "error"
          /\ UNCHANGED reported
    /\ UNCHANGED <<diskVars, onChainState, password, service_exists,
                   safe_exists, required_key, walletReads, safeFirstRead,
                   safeLastRead, safePolls, olasLastRead, olasPolls,
                   lastBranch, histVars>>
    /\ UNCHANGED steps
    /\ raised' = IF pc' = "error" THEN pc ELSE raised
    /\ UNCHANGED mnemonic
    /\ UNCHANGED <<validatorVars, configVars, auxVars>>

\* line 639-649: wallet.create_safe; the transaction may fail
CreateSafe ==
    /\ pc = "create_safe"
    /\ \/ /\ safes' = TRUE
          /\ safeCreations' = safeCreations + 1
          /\ pc' = AfterSafeResolved(service_exists)
       \/ /\ pc' = "error"
          /\ UNCHANGED <<safes, safeCreations>>
    /\ walletReads' = <<>>
    /\ reported' = -1
    /\ UNCHANGED <<userAccount, walletExists, index, mechHash, agentId,
                   onChainState, password, service_exists, safe_exists,
                   required_key, safeFirstRead, safeLastRead, safePolls,
                   olasLastRead, olasPolls, lastBranch, runs,
                   accountCreations, walletCreations, transfers, updateCalls,
                   mechCreates>>
    /\ steps' = Mark(steps, "create_safe")
    /\ UNCHANGED mechAddress
    /\ raised' = IF pc' = "error" THEN pc ELSE raised
    /\ UNCHANGED mnemonic
    /\ UNCHANGED <<validatorVars, configVars, auxVars>>

\* line 665: the safe funding loop reads the Safe's balance
SafeFundPoll ==
    /\ pc = "safe_fund"
    /\ safePolls < MaxPolls
    /\ \/ \E b \in Balances :
            /\ safeLastRead' = b
            /\ safeFirstRead' = IF safePolls = 0 THEN b ELSE safeFirstRead
            /\ safePolls' = safePolls + 1
            /\ reported' = -1
            /\ pc' = IF SafeLoopTransfers(b)
                     THEN "safe_transfer" ELSE "safe_report"
            /\ UNCHANGED raised
       \/ /\ pc' = AfterReadFailure("safe_fund")
          /\ raised' = "safe_fund"
          /\ UNCHANGED <<safeLastRead, safeFirstRead, safePolls, reported>>
    /\ walletReads' = <<>>
    /\ UNCHANGED <<diskVars, onChainState, password, service_exists,
                   safe_exists, required_key, olasLastRead, olasPolls,
                   lastBranch, histVars>>
    /\ steps' = Mark(steps, "safe_fund")
    /\ UNCHANGED mnemonic
    /\ UNCHANGED <<validatorVars, configVars, auxVars>>

\* line 666-674: one transfer of firstTimeTopUp from the wallet to the Safe
SafeTransfer ==
    /\ pc = "safe_transfer"
    /\ \/ /\ transfers' = transfers + 1
          /\ pc' = "safe_fund"
       \/ /\ pc' = "error"
          /\ UNCHANGED transfers
    /\ UNCHANGED <<diskVars, onChainState, password, service_exists,
                   safe_exists, required_key, gateVars, lastBranch, runs,
                   accountCreations, walletCreations, safeCreations,
                   updateCalls, mechCreates>>
    /\ UNCHANGED steps
    /\ raised' = IF pc' = "error" THEN pc ELSE raised
    /\ UNCHANGED mnemonic
    /\ UNCHANGED <<validatorVars, configVars, auxVars>>

\* line 676-680: the balance is read again for the success message
SafeReport ==
    /\ pc = "safe_report"
    /\ \/ \E b \in Balances :
            /\ reported' = b
            /\ pc' = AfterSafeFund(service_exists)
       \/ /\ pc' = "error"
          /\ UNCHANGED reported
    /\ UNCHANGED <<diskVars, onChainState, password, service_exists,
                   safe_exists, required_key, walletReads, safeFirstRead,
                   safeLastRead, safePolls, olasLastRead, olasPolls,
                   lastBranch, histVars>>
    /\ UNCHANGED steps
    /\ raised' = IF pc' = "error" THEN pc ELSE raised
    /\ UNCHANGED mnemonic
    /\ UNCHANGED <<validatorVars, configVars, auxVars>>

\* line 692-696: one poll of the staking gate
StakingGatePoll ==
    /\ pc = "staking_gate"
    /\ \/ \E b \in Balances :
            /\ olasLastRead' = b
            /\ olasPolls' = CountPoll(olasPolls)
            /\ reported' = -1
            /\ pc' = IF StakingGateWaits(b)
                     THEN "staking_gate" ELSE "staking_report"
            /\ UNCHANGED raised
       \/ /\ pc' = AfterReadFailure("staking_gate")
          /\ raised' = "staking_gate"
          /\ UNCHANGED <<olasLastRead, olasPolls, reported>>
    /\ safeFirstRead' = -1
    /\ safeLastRead' = -1
    /\ safePolls' = 0
    /\ UNCHANGED <<diskVars, onChainState, password, service_exists,
                   safe_exists, required_key, walletReads, lastBranch,
                   histVars>>
    /\ steps' = Mark(steps, "staking_gate")
    /\ UNCHANGED mnemonic
    /\ UNCHANGED <<validatorVars, configVars, auxVars>>

\* line 698-701: the balance is read again for the success message
StakingReport ==
    /\ pc = "staking_report"
    /\ \/ \E b \in Balances :
            /\ reported' = b
            /\ pc' = "deploy"
       \/ /\ pc' = "error"
          /\ UNCHANGED reported
    /\ UNCHANGED <<diskVars, onChainState, password, service_exists,
                   safe_exists, required_key, walletReads, safeFirstRead,
                   safeLastRead, safePolls, olasLastRead, olasPolls,
                   lastBranch, histVars>>
    /\ UNCHANGED steps
    /\ raised' = IF pc' = "error" THEN pc ELSE raised
    /\ UNCHANGED mnemonic
    /\ UNCHANGED <<validatorVars, configVars, auxVars>>

\* line 703-710 with the exception of the deploy caught and passed over
AfterDeploy_Swallowed(returned) == "fund"

\* line 703-710: fund_service is called when the deploy returned; an
\* exception leaves main
AfterDeploy(returned) == IF returned THEN "fund" ELSE "error"

\* line 710-717: the launch is begun when fund_service returned
AfterFund(returned) == IF returned THEN "launch" ELSE "error"

\* line 703-707: deploy_service_onchain_from_safe_single_chain; a failure
\* may leave the registration begun
Deploy ==
    /\ pc = "deploy"
    /\ \/ /\ onChainState' = "DEPLOYED"
          /\ pc' = AfterDeploy(TRUE)
       \/ /\ onChainState' \in {onChainState} \cup
               (IF onChainState = "NON_EXISTENT"
                THEN {"PRE_REGISTRATION"} ELSE {})
          /\ pc' = AfterDeploy(FALSE)
    /\ UNCHANGED <<diskVars, password, service_exists, safe_exists,
                   required_key, gateVars, lastBranch, histVars>>
    /\ steps' = Mark(steps, "deploy")
    /\ raised' = IF pc' = "error" THEN pc ELSE raised
    /\ UNCHANGED mnemonic
    /\ UNCHANGED <<validatorVars, configVars, auxVars>>

\* line 709-715: manager.fund_service
Fund ==
    /\ pc = "fund"
    /\ \E returned \in BOOLEAN : pc' = AfterFund(returned)
    /\ walletReads' = <<>>
    /\ safeFirstRead' = -1
    /\ safeLastRead' = -1
    /\ safePolls' = 0
    /\ olasLastRead' = -1
    /\ olasPolls' = 0
    /\ reported' = -1
    /\ UNCHANGED <<diskVars, onChainState, password, service_exists,
                   safe_exists, required_key, lastBranch, histVars>>
    /\ steps' = Mark(steps, "fund")
    /\ raised' = IF pc' = "error" THEN pc ELSE raised
    /\ UNCHANGED mnemonic
    /\ UNCHANGED <<validatorVars, configVars, auxVars>>

\* line 717-759: environment, build, volumes, database copy, start
Launch ==
    /\ pc = "launch"
    /\ pc' = "done"
    /\ UNCHANGED <<diskVars, onChainState, password, service_exists,
                   safe_exists, required_key, gateVars, lastBranch, histVars>>
    /\ steps' = Mark(steps, "launch")
    /\ UNCHANGED raised
    /\ UNCHANGED mnemonic
    /\ UNCHANGED <<validatorVars, configVars, auxVars>>

\* the operator interrupts a run that is waiting in a gate
Interrupt ==
    /\ pc \in {"wallet_gate", "safe_fund", "staking_gate"}
    /\ pc' = "interrupted"
    /\ UNCHANGED <<diskVars, onChainState, password, service_exists,
                   safe_exists, required_key, gateVars, lastBranch, histVars>>
    /\ UNCHANGED steps
    /\ UNCHANGED raised
    /\ UNCHANGED mnemonic
    /\ UNCHANGED <<validatorVars, configVars, auxVars>>

\* between two invocations the operator edits mech_hash in
\* local_config.json; the edit is seen when the next run loads the file
OperatorSetsMechHash ==
    /\ pc = "get_local_config"
    /\ mechHash # None
    /\ \E h \in Hashes \ {mechHash} : mechHash' = h
    /\ UNCHANGED <<userAccount, walletExists, safes, index, agentId,
                   onChainState, runVars, histVars>>
    /\ UNCHANGED mechAddress
    /\ UNCHANGED <<validatorVars, configVars, auxVars>>

(***************************************************************************)
(* Agent factory step: deploy_mech (utils.py 491-524).  The function has   *)
(* no caller in the repository; it is an operation that may be invoked     *)
(* between two runs of main, once a Safe exists to send the transaction.   *)
(***************************************************************************)
\* whether a call of deploy_mech submits the factory `create` transaction:
\* the body of deploy_mech reads neither agent_id nor mech_address before
\* line 516
DeployMechSubmits(agent) == TRUE

\* line 521-523 moved before line 516: the fields are stored whatever
\* becomes of the transaction
DeployMechStores_BeforeSettle(settled, emitted) == TRUE

\* line 516-523: settle() raises when the transaction fails, and
\* process_receipt(receipt)[0] raises when the receipt holds no CreateMech
\* event; the assignments and store() of 521-523 come after both
DeployMechStores(settled, emitted) == settled /\ emitted

\* line 516-524: when the transaction has settled and its CreateMech event
\* is parsed, the event's mech and agentId are stored in the local
\* configuration (the n-th mech of the factory has address and id n)
DeployMech ==
    /\ pc \in Terminal \cup {"idle"}
    /\ safes
    /\ mechCreates < MaxMechCalls
    /\ DeployMechSubmits(agentId)
    /\ \E settled, emitted \in BOOLEAN :
          /\ emitted => settled
          /\ mechCreates' = IF settled THEN mechCreates + 1 ELSE mechCreates
          /\ IF DeployMechStores(settled, emitted)
             THEN /\ agentId' = mechCreates + 1
                  /\ mechAddress' = mechCreates + 1
             ELSE UNCHANGED <<agentId, mechAddress>>
    /\ UNCHANGED <<userAccount, walletExists, safes, index, mechHash,
                   onChainState, runVars, runs, accountCreations,
                   walletCreations, safeCreations, transfers, updateCalls>>
    /\ UNCHANGED <<validatorVars, configVars, auxVars>>

Next ==
    \/ StartRun
    \/ GetLocalConfig
    \/ GetService
    \/ AccountStep
    \/ SetPassword
    \/ WalletStep
    \/ AckMnemonic
    \/ ChainStep
    \/ WalletGatePoll
    \/ WalletReport
    \/ CreateSafe
    \/ SafeFundPoll
    \/ SafeTransfer
    \/ SafeReport
    \/ StakingGatePoll
    \/ StakingReport
    \/ Deploy
    \/ Fund
    \/ Launch
    \/ Interrupt
    \/ OperatorSetsMechHash
    \/ DeployMech

Spec == Init /\ [][Next]_vars

(***************************************************************************)
(* Claims about main, get_service and deploy_mech, checked under Spec.     *)
(***************************************************************************)

\* C1: the agent factory step (the factory `create` transaction of
\* deploy_mech) is executed at most once for one LocalConfig: only while
\* agent_id is None, never again once agent_id is stored.
C1_FactoryStepAtMostOnce ==
    [][mechCreates' > mechCreates => agentId = None]_vars

\* C2: in the safe funding loop a transfer is issued only directly after a
\* read of the Safe's balance that returned less than firstTimeTopUp, and
\* when the first read returns firstTimeTopUp or more no transfer is issued.
C2_TransferOnlyBelowThreshold ==
    [][/\ transfers' > transfers =>
            /\ pc = "safe_transfer"
            /\ safeLastRead >= 0
            /\ safeLastRead < FirstTimeTopUp
       /\ safeFirstRead' >= FirstTimeTopUp => transfers' = 0]_vars

\* a run that made one transfer after a low read and then left the loop
C2_Witness ==
    /\ pc = "safe_report"
    /\ transfers = 1
    /\ safeFirstRead = 0
    /\ safeLastRead >= FirstTimeTopUp

\* the steps of a run that come after the wallet gate
AfterWalletGate ==
    {"wallet_report", "create_safe", "safe_fund", "safe_transfer",
     "safe_report", "staking_gate", "staking_report", "deploy", "fund",
     "launch", "done"}

\* C3: no funding gate opens early: the step after the wallet gate is
\* reached only after a poll of the wallet balance returned at least the
\* required balance, and the on-chain deploy after a staking gate only after
\* a poll of the staking token returned at least
\* COST_OF_STAKING + COST_OF_BOND_STAKING.
C3_GatesDoNotOpenEarly ==
    /\ pc \in {"wallet_report", "create_safe"} => walletReads # <<>>
    /\ (pc \in AfterWalletGate /\ walletReads # <<>>) =>
            Last(walletReads) >= ChainMetadata(required_key)
    /\ (pc \in {"staking_report", "deploy"} /\ UseStaking /\ ~service_exists) =>
            olasLastRead >= COST_OF_STAKING + COST_OF_BOND_STAKING

\* a run that waited in the staking gate and reached the deploy step
C3_Witness ==
    /\ pc = "deploy"
    /\ olasPolls = 2
    /\ olasLastRead = COST_OF_STAKING + COST_OF_BOND_STAKING

\* C4: when the index holds a record with the template's hash, get_service
\* loads it: update_service is not called, nothing changes on chain and
\* the index is left as it was, in every run.
C4_RegistrarIdempotent ==
    [][(pc = "get_service" /\ mechHash \in Range(index)) =>
            /\ lastBranch' = "load"
            /\ updateCalls' = updateCalls
            /\ index' = index
            /\ onChainState' = onChainState]_vars

\* a second run that loaded the service the first run had registered
C4_Witness ==
    /\ runs = 2
    /\ pc = "account"
    /\ lastBranch = "load"
    /\ updateCalls = <<>>

\* C5: when the record's hash H_old differs from the template's hash H_new,
\* get_service calls update_service once, with H_old and H_new, and not
\* load_or_create; a following run with H_new migrates nothing.
C5_RegistrarMigratesOnce ==
    [][/\ (pc = "get_service" /\ index # <<>> /\ index[1] # mechHash) =>
            /\ lastBranch' = "update"
            /\ updateCalls' = Append(updateCalls, <<index[1], mechHash>>)
            /\ index' = <<mechHash>>
       /\ (pc = "get_service" /\ updateCalls # <<>>
           /\ Last(updateCalls)[2] = mechHash) =>
            updateCalls' = updateCalls]_vars

\* a run that migrated from hash 1 to hash 2, followed by a run with hash 2
C5_Witness ==
    /\ runs = 2
    /\ pc = "account"
    /\ updateCalls = <<(<<1, 2>>)>>
    /\ lastBranch = "load"
    /\ index = <<2>>

\* C6: without a Safe the wallet gate waits for firstTimeTopUp (with a Safe
\* for operationalFundReq), and create_safe is reached only after a wallet
\* balance of at least firstTimeTopUp was observed; with the observations
\* 0, 0, threshold the Safe is created after the third one.
C6_SafeCreationWaitsForTopUp ==
    /\ pc \in {"wallet_gate", "wallet_report", "create_safe"} =>
            required_key = (IF safe_exists THEN "operationalFundReq"
                            ELSE "firstTimeTopUp")
    /\ pc = "create_safe" =>
            /\ ~safe_exists
            /\ \E i \in 1..Len(walletReads) : walletReads[i] >= FirstTimeTopUp
            /\ \A i \in 1..(Len(walletReads) - 1) :
                    walletReads[i] < FirstTimeTopUp

\* the scenario: the observations 0, 0, firstTimeTopUp, then create_safe
C6_Witness ==
    /\ pc = "create_safe"
    /\ walletReads = <<0, 0, FirstTimeTopUp>>
    /\ safeCreations = 0

\* C10: the account, the wallet and the Safe are created only when absent,
\* a present one stays, and over all runs each is created at most once.
C10_ResourcesCreatedOnce ==
    [][/\ accountCreations' > accountCreations => ~userAccount
       /\ walletCreations' > walletCreations => ~walletExists
       /\ safeCreations' > safeCreations => ~safes
       /\ userAccount => userAccount'
       /\ walletExists => walletExists'
       /\ safes => safes'
       /\ accountCreations' <= 1
       /\ walletCreations' <= 1
       /\ safeCreations' <= 1]_vars

\* every resource was created by the first run and a second run was made
C10_Witness ==
    /\ runs = 2
    /\ pc = "set_password"
    /\ accountCreations = 1
    /\ walletCreations = 1
    /\ safeCreations = 1

\* the position of x in the sequence s (0 when absent)
Pos(s, x) == IF x \in Range(s) THEN CHOOSE i \in 1..Len(s) : s[i] = x ELSE 0

Before(s, x, y) == x \in Range(s) /\ y \in Range(s) /\ Pos(s, x) < Pos(s, y)

\* the order of the steps as the code has them
CodeOrder ==
    <<"query", "wallet_gate", "create_safe", "safe_fund", "staking_gate",
      "deploy", "fund", "launch">>

\* the order of the steps as C11 states it
StatedOrder ==
    <<"wallet_gate", "create_safe", "query", "safe_fund", "staking_gate",
      "deploy", "fund", "launch">>

\* the steps begun so far follow one another as in order
InOrder(order) ==
    \A i, j \in 1..Len(steps) :
        i < j => Pos(order, steps[i]) < Pos(order, steps[j])

\* C11 as stated: the steps of a chain begin in the order wallet gate, safe
\* creation, on-chain existence query, safe funding gate, staking gate,
\* deploy, fund; the query comes after the wallet gate and the safe creation.
C11_QueryAfterSafeCreation ==
    InOrder(StatedOrder)

\* C11: the on-chain existence query comes first, before the wallet gate;
\* then the steps begin in the order wallet gate, safe creation (when the
\* Safe is absent), safe funding gate, staking gate, deploy, fund, none
\* before the one before it is over, and the answer of that one query is
\* what decides about the safe funding gate and the staking gate.
C11_StepsInOrder ==
    /\ InOrder(CodeOrder)
    /\ steps # <<>> => steps[1] = "query"
    /\ "create_safe" \in Range(steps) => ~safe_exists
    /\ "deploy" \in Range(steps) =>
            /\ "wallet_gate" \in Range(steps)
            /\ ~safe_exists => "create_safe" \in Range(steps)
            /\ ~service_exists => "safe_fund" \in Range(steps)
            /\ (UseStaking /\ ~service_exists) =>
                    "staking_gate" \in Range(steps)
    /\ "fund" \in Range(steps) => "deploy" \in Range(steps)

\* a first run that went through every step up to the funding of the service
C11_Witness ==
    /\ pc = "launch"
    /\ steps = <<"query", "wallet_gate", "create_safe", "safe_fund",
                 "staking_gate", "deploy", "fund">>

\* the steps of a run that come before the on-chain deploy
BeforeDeploy ==
    {"wallet_gate", "wallet_report", "create_safe", "safe_fund",
     "safe_transfer", "safe_report", "staking_gate", "staking_report",
     "deploy"}

\* C12: when the state that was queried is not NON_EXISTENT the run makes
\* no transfer to the Safe and does not wait for the staking token: the
\* deploy follows the resolution of the Safe; the staking gate is entered
\* only with use_staking and a queried state NON_EXISTENT.
C12_KnownServiceSkipsGates ==
    /\ (pc \in BeforeDeploy /\ onChainState # "NON_EXISTENT") =>
            /\ transfers = 0
            /\ pc \notin {"safe_fund", "safe_transfer", "safe_report",
                           "staking_gate", "staking_report"}
            /\ "safe_fund" \notin Range(steps)
            /\ "staking_gate" \notin Range(steps)
    /\ (pc \in BeforeDeploy /\ "staking_gate" \in Range(steps)) =>
            UseStaking /\ onChainState = "NON_EXISTENT"

\* a run for a deployed service that created the Safe and stands at the
\* deploy
C12_Witness ==
    /\ pc = "deploy"
    /\ onChainState = "DEPLOYED"
    /\ steps = <<"query", "wallet_gate", "create_safe">>

\* C13 as stated: in a first-time run the deploy is begun only after a read
\* of the staking token that is more than
\* COST_OF_STAKING + COST_OF_BOND_STAKING.
C13_DeployAfterMoreThanCost ==
    [][("deploy" \notin Range(steps) /\ "deploy" \in Range(steps')
        /\ UseStaking /\ ~service_exists)
       => olasLastRead > COST_OF_STAKING + COST_OF_BOND_STAKING]_vars

\* C13: in a first-time run of a staking service the deploy is begun only
\* after a read of the staking token that is at least
\* COST_OF_STAKING + COST_OF_BOND_STAKING.
C13_DeployAfterCostCovered ==
    [][("deploy" \notin Range(steps) /\ "deploy" \in Range(steps')
        /\ UseStaking /\ ~service_exists)
       => /\ olasPolls > 0
          /\ olasLastRead >= COST_OF_STAKING + COST_OF_BOND_STAKING]_vars

\* a first-time run whose deploy went through after a read of just the cost
C13_Witness ==
    /\ pc = "fund"
    /\ "staking_gate" \in Range(steps)
    /\ olasLastRead = COST_OF_STAKING + COST_OF_BOND_STAKING
    /\ onChainState = "DEPLOYED"

\* C14: a failure of the deploy or of the funding of the service ends the
\* run: after a failed deploy fund_service is not called, after either
\* failure nothing of the launch (environment, build, start) happens and
\* the failed step is not begun again; the launch is begun only after the
\* deploy and the funding returned.
C14_DeployOrFundFailureIsFatal ==
    [][/\ (pc = "deploy" /\ onChainState' # "DEPLOYED") =>
            (pc' = "error" /\ "fund" \notin Range(steps'))
       /\ (pc \in {"deploy", "fund"} /\ pc' # pc) =>
            pc' \in {"error", IF pc = "deploy" THEN "fund" ELSE "launch"}
       /\ (pc = "error" /\ steps' # <<>>) => (pc' = "error" /\ steps' = steps)
       /\ ("launch" \notin Range(steps) /\ "launch" \in Range(steps')) =>
            /\ pc = "launch"
            /\ Before(steps, "deploy", "fund")
            /\ onChainState = "DEPLOYED"
       /\ "deploy" \in Range(steps) => pc' # "deploy"
       /\ "fund" \in Range(steps) => pc' # "fund"]_vars

\* a deploy that failed with the registration begun: the run is over
C14_Witness ==
    /\ pc = "error"
    /\ "deploy" \in Range(steps)
    /\ "fund" \notin Range(steps)
    /\ onChainState = "PRE_REGISTRATION"

\* C15: on a run that finds the user account present (nothing bound the
\* local `password`, no account was created), main has the operator's
\* password, sets operate.password and goes on to the wallet step.
C15_PresentAccountReachesWallet ==
    [][(pc = "set_password" /\ userAccount /\ password = "unbound")
       => pc' = "wallet"]_vars

\* C21: the safe funding loop does not over-fund: one transfer of
\* firstTimeTopUp suffices for the threshold, so a run makes at most one
\* transfer, also when the transfer shows in the balance only at a later
\* poll.
C21_AtMostOneTopUp ==
    transfers <= 1

\* the loops of the three gates
GateLoops == {"wallet_gate", "safe_fund", "staking_gate"}

\* C22: a balance read that raises while a gate is polling ends the run
\* there: the read is not made again, and no transfer, Safe creation,
\* deploy, fund or launch follows in this run.
C22_ReadFailureEndsRun ==
    [][/\ (pc \in GateLoops /\ raised' # raised)
          => /\ pc' = "error"
             /\ steps' \in {steps, Append(steps, pc)}
             /\ Len(walletReads') <= Len(walletReads)
             /\ safePolls' <= safePolls
             /\ olasPolls' <= olasPolls
             /\ transfers' = transfers
             /\ safeCreations' = safeCreations
             /\ onChainState' = onChainState
       /\ (raised \in GateLoops /\ runs' = runs)
          => /\ pc' = "error"
             /\ steps' = steps
             /\ Len(walletReads') <= Len(walletReads)
             /\ safePolls' <= safePolls
             /\ olasPolls' <= olasPolls
             /\ transfers' = transfers
             /\ safeCreations' = safeCreations
             /\ onChainState' = onChainState]_vars

\* the read of the Safe's balance raised after a transfer was made
C22_Witness ==
    /\ raised = "safe_fund"
    /\ pc = "error"
    /\ transfers = 1
    /\ "deploy" \notin Range(steps)

\* C24: whatever hashes the template had over the runs, the local index
\* holds at most one service, and once get_service has returned it is the
\* service of the template's hash; a run with the same hash after a
\* failed transaction loads the record and leaves index and registration
\* as they are.
C24_IndexTracksLatestTemplate ==
    /\ [](Len(index) <= 1)
    /\ [](pc \notin {"idle", "get_local_config", "get_service"}
          => index = <<mechHash>>)
    /\ [][(pc = "get_service" /\ index = <<mechHash>>)
          => /\ index' = index
             /\ lastBranch' = "load"
             /\ onChainState' = onChainState]_vars

\* the second run found the registration a failed deploy had begun, with
\* the same hash
C24_Witness ==
    /\ runs = 2
    /\ pc = "account"
    /\ lastBranch = "load"
    /\ onChainState = "PRE_REGISTRATION"
    /\ Len(index) = 1

\* C29: a run that finds no wallet creates one, prints its mnemonic once
\* and waits for the operator's enter before any step on the chain; a run
\* that finds the wallet creates no key and prints no mnemonic.
C29_MnemonicAcknowledgedFirst ==
    /\ [](mnemonic = "shown" => (pc = "wallet_ack" /\ steps = <<>>))
    /\ [][/\ (pc = "wallet" /\ ~walletExists)
             => (mnemonic' = "shown" /\ walletCreations' = walletCreations + 1)
          /\ (pc = "wallet" /\ walletExists)
             => /\ mnemonic' = "none"
                /\ walletCreations' = walletCreations
                /\ pc' = "chain"
          /\ mnemonic' = "shown" => (pc = "wallet" /\ mnemonic = "none")
          /\ mnemonic = "acked" => mnemonic' \in {"acked", "none"}]_vars

\* the chain was queried after the enter
C29_Witness ==
    /\ mnemonic = "acked"
    /\ "query" \in Range(steps)
    /\ walletCreations = 1

\* C30: the balance a gate reports when it opens is the observation that
\* opened it, and so at least the threshold, whatever the sequence of
\* observations.
C30_ReportedIsSatisfyingRead ==
    [][/\ (pc = "wallet_report" /\ pc' \notin {"wallet_report", "error"})
          => /\ reported' = Last(walletReads)
             /\ reported' >= ChainMetadata(required_key)
       /\ (pc = "safe_report" /\ pc' \notin {"safe_report", "error"})
          => /\ reported' = safeLastRead
             /\ reported' >= FirstTimeTopUp
       /\ (pc = "staking_report" /\ pc' \notin {"staking_report", "error"})
          => /\ reported' = olasLastRead
             /\ reported' >= COST_OF_STAKING + COST_OF_BOND_STAKING]_vars


\* C26: deploy_mech sets mech_address and agent_id together, and only when
\* the transaction has settled and its CreateMech event was parsed: they
\* are then the values of that event.  When the transaction fails or
\* carries no event, neither field changes.
C26_MechFieldsSetTogether ==
    /\ []((agentId = None) <=> (mechAddress = None))
    /\ [][(agentId' # agentId \/ mechAddress' # mechAddress)
          => /\ mechCreates' = mechCreates + 1
             /\ agentId' = mechCreates'
             /\ mechAddress' = mechCreates']_vars

\* a transaction settled without an event that could be parsed: the
\* fields are as they were
C26_Witness ==
    /\ mechCreates = 1
    /\ agentId = None
    /\ mechAddress = None


\* C33: when the two entries of the password differ at the creation of
\* the account, the process exits with status 1, and that run creates no
\* account, wallet or Safe and sends no transaction.
C33_MismatchCreatesNothing ==
    /\ [](pc = "exit1"
          => /\ ~userAccount
             /\ steps = <<>>
             /\ transfers = 0
             /\ mnemonic = "none")
    /\ [][/\ (pc = "account" /\ pc' = "exit1")
             => /\ CreatesAccount(userAccount)
                /\ UNCHANGED <<userAccount, walletExists, safes,
                               onChainState, accountCreations,
                               walletCreations, safeCreations, transfers>>
          /\ (pc = "exit1" /\ runs' = runs)
             => /\ pc' = "exit1"
                /\ UNCHANGED <<userAccount, walletExists, safes,
                               onChainState, accountCreations,
                               walletCreations, safeCreations, transfers,
                               steps>>]_vars

\* the run ended at the passwords, after get_service made its record
C33_Witness ==
    /\ pc = "exit1"
    /\ index # <<>>
    /\ accountCreations = 0
    /\ ~walletExists


(***************************************************************************)
(* The gates under fair polling.  The loops of lines 631-632 and 692-696    *)
(* sleep one second and read again, so a gate that waits polls again; the   *)
(* hypothesis that the reads are at the threshold from some point on is     *)
(* strong fairness of the poll that reads such a balance.  The run starts   *)
(* on an empty home directory.                                              *)
(***************************************************************************)
\* a poll of the wallet gate that reads the required balance
WalletGateOpens == WalletGatePoll /\ pc' = "wallet_report"

\* a poll of the staking gate that reads the staking cost
StakingGateOpens == StakingGatePoll /\ pc' = "staking_report"

\* an empty home directory, the validator and the prompts at rest
FreshInit == MainFresh /\ ValidatorIdle /\ ConfigIdle /\ AuxIdle

SpecFairPolls ==
    /\ FreshInit
    /\ [][Next]_vars
    /\ WF_vars(WalletGatePoll)
    /\ WF_vars(StakingGatePoll)
    /\ SF_vars(WalletGateOpens)
    /\ SF_vars(StakingGateOpens)

\* C23: the gates have no timeout.  A gate that reads a balance below its
\* threshold stays, whatever the number of polls; it is left only by a
\* read at the threshold, by the exception of a read or by the operator's
\* interrupt, and no step of the run is taken meanwhile.  Under fair
\* polling with reads that are at the threshold from some point on, a
\* gate that waits is left and the run goes on.
C23_GatesWaitWithoutTimeout ==
    /\ [][/\ pc = "wallet_gate"
             => \/ /\ pc' = "wallet_gate"
                   /\ Last(walletReads') < ChainMetadata(required_key)
                   /\ steps' \in {steps, Append(steps, pc)}
                \/ /\ pc' = "wallet_report"
                   /\ Last(walletReads') >= ChainMetadata(required_key)
                \/ pc' = "error" /\ raised' = "wallet_gate"
                \/ pc' = "interrupted"
          /\ pc = "staking_gate"
             => \/ /\ pc' = "staking_gate"
                   /\ olasLastRead' < COST_OF_STAKING + COST_OF_BOND_STAKING
                   /\ steps' \in {steps, Append(steps, pc)}
                \/ /\ pc' = "staking_report"
                   /\ olasLastRead' >= COST_OF_STAKING + COST_OF_BOND_STAKING
                \/ pc' = "error" /\ raised' = "staking_gate"
                \/ pc' = "interrupted"]_vars
    /\ pc = "wallet_gate"
          ~> pc \in {"wallet_report", "error", "interrupted"}
    /\ pc = "staking_gate"
          ~> pc \in {"staking_report", "error", "interrupted"}

\* the wallet gate opened after more polls than are told apart
C23_Witness ==
    /\ pc = "wallet_report"
    /\ Len(walletReads) = MaxPolls
    /\ walletReads[1] < ChainMetadata(required_key)
    /\ Last(walletReads) >= ChainMetadata(required_key)


(***************************************************************************)
(* The metadata validator: __validate_metadata_file                        *)
(* (setup_metadata_hash.py 86-248) on the document json.load returned.     *)
(*                                                                         *)
(* A document is [ty, tools, req]: ty maps every path of the JSON object   *)
(* to the type of the value there ("str", "int", "list", "dict"), tools    *)
(* is the list at "tools", req[t] is the length of the value at            *)
(* toolMetadata.t.output.schema.required.                                  *)
(***************************************************************************)
\* tools that are explored
ToolNames == {"t1", "t2"}

\* the keys of metadata_schema in alphabetical order
metadata_schema_Sorted ==
    << <<"description", "str">>, <<"image", "str">>, <<"inputFormat", "str">>,
       <<"name", "str">>, <<"outputFormat", "str">>, <<"toolMetadata", "dict">>,
       <<"tools", "list">> >>

\* metadata_schema, line 15-23
metadata_schema ==
    << <<"name", "str">>, <<"description", "str">>, <<"inputFormat", "str">>,
       <<"outputFormat", "str">>, <<"image", "str">>, <<"tools", "list">>,
       <<"toolMetadata", "dict">> >>

\* tool_schema, line 25-30
tool_schema ==
    << <<"name", "str">>, <<"description", "str">>, <<"input", "dict">>,
       <<"output", "dict">> >>

\* tool_input_schema, line 31-34
tool_input_schema == << <<"type", "str">>, <<"description", "str">> >>

\* tool_output_schema, line 35
tool_output_schema ==
    << <<"type", "str">>, <<"description", "str">>, <<"schema", "dict">> >>

\* output_schema_schema, line 37-41
output_schema_schema ==
    << <<"properties", "dict">>, <<"required", "list">>, <<"type", "str">> >>

\* properties_schema, line 43-47
properties_schema ==
    << <<"requestId", "dict">>, <<"result", "dict">>, <<"prompt", "dict">> >>

\* properties_data_schema, line 49-52
properties_data_schema == << <<"type", "str">>, <<"description", "str">> >>

\* `key in value` for the dict at path p
Has(d, p) == p \in DOMAIN d.ty

\* a count of every key below path p, nested ones included
NumKeys_Deep(d, p) ==
    Cardinality({q \in DOMAIN d.ty :
                    Len(q) > Len(p) /\ SubSeq(q, 1, Len(p)) = p})

\* len(value) for the dict at path p
NumKeys(d, p) ==
    Cardinality({q \in DOMAIN d.ty :
                    Len(q) = Len(p) + 1 /\ SubSeq(q, 1, Len(p)) = p})

\* what the function returns: (True, "") is Ok; a failure carries the parts
\* that its message interpolates (key and at are "" where the message does
\* not name them); "raise" is an exception that leaves the function
Ok ==
    [status |-> "ok", kind |-> "", key |-> "", at |-> "", expected |-> "",
     actual |-> "", n1 |-> 0, n2 |-> 0]

MissingKey(kind, key, at) ==
    [status |-> "fail", kind |-> kind, key |-> key, at |-> at,
     expected |-> "", actual |-> "", n1 |-> 0, n2 |-> 0]

InvalidType(kind, key, at, expected, actual) ==
    [status |-> "fail", kind |-> kind, key |-> key, at |-> at,
     expected |-> expected, actual |-> actual, n1 |-> 0, n2 |-> 0]

CountMismatch(kind, n1, n2) ==
    [status |-> "fail", kind |-> kind, key |-> "", at |-> "",
     expected |-> "", actual |-> "", n1 |-> n1, n2 |-> n2]

Raises(what) ==
    [status |-> "raise", kind |-> what, key |-> "", at |-> "",
     expected |-> "", actual |-> "", n1 |-> 0, n2 |-> 0]

\* the keys of a property left unread
PropertiesDataLoop_Unread(d, tool, p_key, i) == Ok

\* line 229-246: the keys of one property
RECURSIVE PropertiesDataLoop(_, _, _, _)
PropertiesDataLoop(d, tool, p_key, i) ==
    IF i > Len(properties_data_schema) THEN Ok
    ELSE LET key == properties_data_schema[i][1]
             expected == properties_data_schema[i][2]
             path == <<"toolMetadata", tool, "output", "schema",
                       "properties", p_key, key>>
         IN  IF ~Has(d, path)
             THEN MissingKey("Missing key in properties", key, p_key)
             ELSE IF d.ty[path] # expected
             THEN InvalidType("Invalid type for key in properties", "", "",
                              expected, d.ty[path])
             ELSE PropertiesDataLoop(d, tool, p_key, i + 1)

\* line 198-246: the properties of the output schema
RECURSIVE PropertiesLoop(_, _, _)
PropertiesLoop(d, tool, i) ==
    IF i > Len(properties_schema) THEN Ok
    ELSE LET p_key == properties_schema[i][1]
             expected == properties_schema[i][2]
             schema == <<"toolMetadata", tool, "output", "schema">>
             props == Append(schema, "properties")
             path == Append(props, p_key)
         IN  IF ~Has(d, path)
             THEN MissingKey("Missing key for output -> schema -> properties",
                             p_key, tool)
             ELSE IF d.ty[path] # expected
             THEN InvalidType("Invalid type in output -> schema -> properties",
                              p_key, tool, expected, d.ty[path])
             ELSE IF d.ty[Append(schema, "required")] = "int"
             THEN Raises("TypeError")
             ELSE IF NumKeys(d, props) # d.req[tool]
             THEN CountMismatch("Number of properties data does not match",
                                d.req[tool], NumKeys(d, props))
             ELSE LET r == PropertiesDataLoop(d, tool, p_key, 1)
                  IN  IF r.status # "ok" THEN r
                      ELSE PropertiesLoop(d, tool, i + 1)

\* line 173-246: the keys of the output schema
RECURSIVE OutputSchemaLoop(_, _, _)
OutputSchemaLoop(d, tool, i) ==
    IF i > Len(output_schema_schema) THEN Ok
    ELSE LET s_key == output_schema_schema[i][1]
             expected == output_schema_schema[i][2]
             schema == <<"toolMetadata", tool, "output", "schema">>
             path == Append(schema, s_key)
         IN  IF ~Has(d, path)
             THEN MissingKey("Missing key for output -> schema", s_key, tool)
             ELSE IF d.ty[path] # expected
             THEN InvalidType("Invalid type in output -> schema", s_key, tool,
                              expected, d.ty[path])
             ELSE IF s_key = "properties" /\ Has(d, Append(schema, "required"))
             THEN LET r == PropertiesLoop(d, tool, 1)
                  IN  IF r.status # "ok" THEN r
                      ELSE OutputSchemaLoop(d, tool, i + 1)
             ELSE OutputSchemaLoop(d, tool, i + 1)

\* line 155-246: the keys of a tool's output
RECURSIVE OutputLoop(_, _, _)
OutputLoop(d, tool, i) ==
    IF i > Len(tool_output_schema) THEN Ok
    ELSE LET o_key == tool_output_schema[i][1]
             expected == tool_output_schema[i][2]
             path == <<"toolMetadata", tool, "output", o_key>>
         IN  IF ~Has(d, path)
             THEN MissingKey("Missing key for output", o_key, tool)
             ELSE IF d.ty[path] # expected
             THEN InvalidType("Invalid type in output", o_key, tool, expected,
                              d.ty[path])
             ELSE IF o_key = "schema"
             THEN LET r == OutputSchemaLoop(d, tool, 1)
                  IN  IF r.status # "ok" THEN r
                      ELSE OutputLoop(d, tool, i + 1)
             ELSE OutputLoop(d, tool, i + 1)

\* line 138-153: the keys of a tool's input
RECURSIVE InputLoop(_, _, _)
InputLoop(d, tool, i) ==
    IF i > Len(tool_input_schema) THEN Ok
    ELSE LET i_key == tool_input_schema[i][1]
             expected == tool_input_schema[i][2]
             path == <<"toolMetadata", tool, "input", i_key>>
         IN  IF ~Has(d, path)
             THEN MissingKey("Missing key for input", i_key, tool)
             ELSE IF d.ty[path] # expected
             THEN InvalidType("Invalid type in input", i_key, tool, expected,
                              d.ty[path])
             ELSE InputLoop(d, tool, i + 1)

\* line 125-246: the keys of a tool's metadata; `key not in data` raises
\* when data is a number
RECURSIVE ToolSchemaLoop(_, _, _)
ToolSchemaLoop(d, tool, i) ==
    IF i > Len(tool_schema) THEN Ok
    ELSE LET key == tool_schema[i][1]
             expected == tool_schema[i][2]
             path == <<"toolMetadata", tool, key>>
         IN  IF d.ty[<<"toolMetadata", tool>>] = "int"
             THEN Raises("TypeError")
             ELSE IF ~Has(d, path)
             THEN MissingKey("Missing key in toolsMetadata", key, "")
             ELSE IF d.ty[path] # expected
             THEN InvalidType("Invalid type for key in toolsMetadata", "", "",
                              expected, d.ty[path])
             ELSE LET r == IF key = "input" THEN InputLoop(d, tool, 1)
                           ELSE IF key = "output" THEN OutputLoop(d, tool, 1)
                           ELSE Ok
                  IN  IF r.status # "ok" THEN r
                      ELSE ToolSchemaLoop(d, tool, i + 1)

\* line 121-246: the tools, in the order of the list
RECURSIVE ToolsLoop(_, _)
ToolsLoop(d, j) ==
    IF j > Len(d.tools) THEN Ok
    ELSE LET tool == d.tools[j]
         IN  IF ~Has(d, <<"toolMetadata", tool>>)
             THEN MissingKey("Missing toolsMetadata for tool", tool, "")
             ELSE LET r == ToolSchemaLoop(d, tool, 1)
                  IN  IF r.status # "ok" THEN r ELSE ToolsLoop(d, j + 1)

\* the counts compared only after the tools were checked
CountCheck_AfterTools(d) ==
    LET num_of_tools == Len(d.tools)
        num_of_tools_metadata == NumKeys(d, <<"toolMetadata">>)
        r == ToolsLoop(d, 1)
    IN  IF r.status # "ok" THEN r
        ELSE IF num_of_tools # num_of_tools_metadata
        THEN CountMismatch("Number of tools does not match", num_of_tools,
                           num_of_tools_metadata)
        ELSE Ok

\* line 110-119: the number of tools against the number of keys of
\* toolMetadata
CountCheck(d) ==
    LET num_of_tools == Len(d.tools)
        num_of_tools_metadata == NumKeys(d, <<"toolMetadata">>)
    IN  IF num_of_tools # num_of_tools_metadata
        THEN CountMismatch("Number of tools does not match", num_of_tools,
                           num_of_tools_metadata)
        ELSE ToolsLoop(d, 1)

\* line 98-108: the top-level keys, in the order of metadata_schema
RECURSIVE MetadataLoop(_, _)
MetadataLoop(d, i) ==
    IF i > Len(metadata_schema) THEN CountCheck(d)
    ELSE LET key == metadata_schema[i][1]
             expected == metadata_schema[i][2]
         IN  IF ~Has(d, <<key>>)
             THEN MissingKey("Missing key in metadata json", key, "")
             ELSE IF d.ty[<<key>>] # expected
             THEN InvalidType("Invalid type for key in metadata json", "",
                              "", expected, d.ty[<<key>>])
             ELSE MetadataLoop(d, i + 1)

\* __validate_metadata_file on a document that was read
ValidateMetadataFile(d) == MetadataLoop(d, 1)

(***************************************************************************)
(* The documents that are explored: a complete document for some list of   *)
(* tools and some set of toolMetadata keys, with up to two defects (a key  *)
(* removed, a value of another type, a `required` list of another length,  *)
(* a further property).                                                    *)
(***************************************************************************)
\* lengths of `required` that are explored, besides that of the properties
MaxRequired == 4

\* the paths below toolMetadata.<tool> of a complete document, with types
ToolTree ==
    { << <<>>, "dict" >>,
      << <<"name">>, "str" >>,
      << <<"description">>, "str" >>,
      << <<"input">>, "dict" >>,
      << <<"input", "type">>, "str" >>,
      << <<"input", "description">>, "str" >>,
      << <<"output">>, "dict" >>,
      << <<"output", "type">>, "str" >>,
      << <<"output", "description">>, "str" >>,
      << <<"output", "schema">>, "dict" >>,
      << <<"output", "schema", "type">>, "str" >>,
      << <<"output", "schema", "required">>, "list" >>,
      << <<"output", "schema", "properties">>, "dict" >> }
    \cup UNION { { << <<"output", "schema", "properties", k>>, "dict" >>,
                   << <<"output", "schema", "properties", k, "type">>, "str" >>,
                   << <<"output", "schema", "properties", k, "description">>,
                      "str" >> } : k \in {"requestId", "result", "prompt"} }

\* the complete document with the list tools and the toolMetadata keys keys
CompleteDoc(tools, keys) ==
    LET typed ==
            { << <<metadata_schema[i][1]>>, metadata_schema[i][2] >> :
                    i \in 1..Len(metadata_schema) }
            \cup { << <<"toolMetadata", t>> \o e[1], e[2] >> :
                    t \in keys, e \in ToolTree }
    IN  [ty |-> [q \in {e[1] : e \in typed} |->
                    (CHOOSE e \in typed : e[1] = q)[2]],
         tools |-> tools,
         req |-> [t \in ToolNames |-> 3]]

IsPrefix(q, r) == Len(q) <= Len(r) /\ SubSeq(r, 1, Len(q)) = q

\* the document without the key at path q
DropKey(d, q) ==
    [d EXCEPT !.ty = [r \in {x \in DOMAIN d.ty : ~IsPrefix(q, x)} |-> d.ty[r]]]

\* the document with a value of type t at path q
Retype(d, q, t) ==
    IF q \notin DOMAIN d.ty THEN d
    ELSE [d EXCEPT !.ty =
            [r \in {x \in DOMAIN d.ty : x = q \/ ~IsPrefix(q, x)} |->
                IF r = q THEN t ELSE d.ty[r]]]

\* the document with a further property "extra" in the schema of tool t
AddProperty(d, t) ==
    LET props == <<"toolMetadata", t, "output", "schema", "properties">>
        more == {Append(props, "extra"), props \o <<"extra", "type">>,
                 props \o <<"extra", "description">>}
    IN  IF props \notin DOMAIN d.ty \/ d.ty[props] # "dict" THEN d
        ELSE [d EXCEPT !.ty =
                [r \in DOMAIN d.ty \cup more |->
                    IF r \in DOMAIN d.ty THEN d.ty[r]
                    ELSE IF r = Append(props, "extra") THEN "dict"
                    ELSE "str"]]

\* the defects: [op, path, arg]
TopDefects ==
    {[op |-> o, path |-> <<metadata_schema[i][1]>>, arg |-> 0] :
        o \in {"drop", "int"}, i \in 1..Len(metadata_schema)}

\* defects of the output schema of tool t1
SchemaDefects ==
    LET schema == <<"toolMetadata", "t1", "output", "schema">>
    IN  {[op |-> o, path |-> Append(schema, "required"), arg |-> 0] :
            o \in {"drop", "int", "str"}}
        \cup {[op |-> "required", path |-> <<"t1">>, arg |-> n] :
                n \in 2..MaxRequired}
        \cup {[op |-> "property", path |-> <<"t1">>, arg |-> 0]}

\* defects of the metadata of tool t1
ToolDefects ==
    {[op |-> o, path |-> <<"toolMetadata", "t1">> \o e[1], arg |-> 0] :
        o \in {"drop", "int"}, e \in ToolTree}
    \cup SchemaDefects

NoDefect == [op |-> "none", path |-> <<>>, arg |-> 0]

Apply(d, f) ==
    CASE f.op = "drop" -> DropKey(d, f.path)
      [] f.op = "int" -> Retype(d, f.path, "int")
      [] f.op = "str" -> Retype(d, f.path, "str")
      [] f.op = "required" -> [d EXCEPT !.req[f.path[1]] = f.arg]
      [] f.op = "property" -> AddProperty(d, f.path[1])
      [] OTHER -> d

\* the lists of tools that are explored
ToolLists == {<<>>, <<"t1">>, <<"t1", "t2">>, <<"t1", "t1">>}

\* complete documents, documents with up to two defects at the top level,
\* documents with up to two defects in the metadata of a tool
Documents ==
    {CompleteDoc(tools, keys) : tools \in ToolLists, keys \in SUBSET ToolNames}
    \cup {Apply(Apply(CompleteDoc(<<"t1">>, keys), f), g) :
            keys \in {{}, {"t1"}},
            f \in TopDefects, g \in TopDefects \cup {NoDefect}}
    \cup {Apply(Apply(CompleteDoc(tools, keys), f), g) :
            tools \in ToolLists, keys \in {{"t1"}, {"t1", "t2"}},
            f \in SchemaDefects \cup {NoDefect}, g \in ToolDefects}

(***************************************************************************)
(* One call of __validate_metadata_file.                                   *)
(***************************************************************************)
ValidatorInit ==
    /\ doc \in Documents
    /\ result = NoResult
    /\ MainFresh
    /\ ConfigIdle
    /\ AuxIdle

\* line 86-248: the file was read, the call returns
Validate ==
    /\ result = NoResult
    /\ result' = ValidateMetadataFile(doc)
    /\ UNCHANGED <<doc, mainVars, configVars, auxVars>>

SpecValidator == ValidatorInit /\ [][Validate]_vars

(***************************************************************************)
(* get_local_config of run_service.py (292-402, used by the start and the  *)
(* stop command) and of utils.py (308-380) on local_config.json.           *)
(* MechQuickstartConfig.load builds the object with from_json, which reads *)
(* the fields the class declares; store() writes the object.               *)
(***************************************************************************)
\* calls of get_local_config that are explored
MaxConfigRuns == 2
\* 'Please enter a valid dict' messages of one call that are explored
MaxErrors == 2
\* fields the file holds before the first call, at most
MaxPreset == 2

Modules == {"run_service", "utils"}

\* what the operator types at a prompt for a dict
Literals == {"dict", "nondict", "malformed"}

\* MechQuickstartConfig.__annotations__ of the module, path left out
Declared(m) == IF m = "run_service" THEN RunServiceFields ELSE UtilsFields

\* the fields in the order get_local_config comes to them, with the way
\* each is obtained
PromptOrder(m) ==
    IF m = "run_service"
    THEN << <<"home_chain_id", "plain">>, <<"gnosis_rpc", "plain">>,
            <<"tools_to_packages_hash", "dict">>, <<"api_keys", "api_keys">>,
            <<"mech_to_subscription", "dict">>, <<"mech_to_config", "dict">>,
            <<"mech_hash", "plain">> >>
    ELSE << <<"home_chain_id", "plain">>, <<"gnosis_rpc", "plain">>,
            <<"mech_hash", "plain">>, <<"password_migrated", "plain">>,
            <<"api_keys_path", "plain">>, <<"api_keys_path", "load_api_keys">>,
            <<"metadata_hash", "plain">>,
            <<"tools_to_packages_hash", "dict">> >>

\* from_json: the object holds the declared fields of the file
FromJson(f, m) == [x \in Fields |-> IF x \in Declared(m) THEN f[x] ELSE Null]

\* store(): the file is the object
StoredFile(c, m) == [x \in Fields |-> IF x \in Declared(m) THEN c[x] ELSE Null]

\* a store() after every field that was obtained
FileAfterField_Stored(f, c, m) == StoredFile(c, m)

\* the file after a field was obtained: nothing is written before the end
FileAfterField(f, c, m) == f

\* the step after ast.literal_eval and the isinstance test on the entry lit
\* at a prompt that asks again
AfterLiteral(lit) ==
    CASE lit = "dict" -> "prompt"
      [] lit = "nondict" -> "dict_loop"
      [] OTHER -> "raised"

\* the same for api_keys, whose loop does not ask again
AfterApiKeysLiteral(lit) ==
    CASE lit = "dict" -> "prompt"
      [] lit = "nondict" -> "api_keys_loop"
      [] OTHER -> "raised"

\* the files the first call may find
FilesExplored ==
    {f \in [Fields -> {Null, "old"}] :
        Cardinality({x \in Fields : f[x] # Null}) <= MaxPreset}

ConfigInit ==
    /\ file \in FilesExplored
    /\ file0 = file
    /\ cfg = [f \in Fields |-> Null]
    /\ cfgModule = "none"
    /\ cfgPc = "idle"
    /\ cfgIdx = 0
    /\ lastInput = "none"
    /\ errors = 0
    /\ cfgRuns = 0
    /\ MainFresh
    /\ ValidatorIdle
    /\ AuxIdle

\* the field and the kind of prompt the call has come to
CurField == PromptOrder(cfgModule)[cfgIdx][1]
CurKind == PromptOrder(cfgModule)[cfgIdx][2]
AtPrompt == cfgPc = "prompt" /\ cfgIdx <= Len(PromptOrder(cfgModule))

\* line 294-298: the file is loaded, or an empty object is made
StartConfig ==
    /\ cfgPc \in {"idle", "stored", "raised", "exit1"}
    /\ cfgRuns < MaxConfigRuns
    /\ cfgRuns' = cfgRuns + 1
    /\ \E m \in Modules :
          /\ cfgModule' = m
          /\ cfg' = FromJson(file, m)
    /\ file0' = file
    /\ cfgPc' = "prompt"
    /\ cfgIdx' = 1
    /\ lastInput' = "none"
    /\ errors' = 0
    /\ UNCHANGED <<file, mainVars, validatorVars, auxVars>>

\* a field that is asked for with input(), input_select_chain or
\* input_with_default_value, or set to a default, when it is None
PromptPlain ==
    /\ AtPrompt
    /\ CurKind = "plain"
    /\ cfg' = IF cfg[CurField] = Null THEN [cfg EXCEPT ![CurField] = "new"]
              ELSE cfg
    /\ file' = FileAfterField(file, cfg', cfgModule)
    /\ cfgIdx' = cfgIdx + 1
    /\ lastInput' = "none"
    /\ UNCHANGED <<file0, cfgModule, cfgPc, errors, cfgRuns, mainVars,
                   validatorVars, auxVars>>

\* the entry lit at a prompt for a dict is evaluated and tested
EvaluateEntry(lit) ==
    /\ lit = "nondict" => errors < MaxErrors
    /\ lastInput' = lit
    /\ cfgPc' = AfterLiteral(lit)
    /\ cfg' = IF lit = "dict" THEN [cfg EXCEPT ![CurField] = "new"] ELSE cfg
    /\ cfgIdx' = IF lit = "dict" THEN cfgIdx + 1 ELSE cfgIdx
    /\ errors' = IF lit = "nondict" THEN errors + 1 ELSE errors

\* tools_to_packages_hash, mech_to_subscription, mech_to_config: asked for
\* when None; after "n" the default None is kept, after "y" the entry is
\* read and evaluated
PromptDict ==
    /\ AtPrompt
    /\ CurKind = "dict"
    /\ \/ /\ cfgIdx' = cfgIdx + 1
          /\ lastInput' = "none"
          /\ UNCHANGED <<cfg, cfgPc, errors>>
       \/ /\ cfg[CurField] = Null
          /\ \E lit \in Literals : EvaluateEntry(lit)
    /\ file' = FileAfterField(file, cfg', cfgModule)
    /\ UNCHANGED <<file0, cfgModule, cfgRuns, mainVars, validatorVars, auxVars>>

\* after 'Please enter a valid dict' the loop reads another entry
DictLoop ==
    /\ cfgPc = "dict_loop"
    /\ \E lit \in Literals : EvaluateEntry(lit)
    /\ file' = FileAfterField(file, cfg', cfgModule)
    /\ UNCHANGED <<file0, cfgModule, cfgRuns, mainVars, validatorVars, auxVars>>

\* run_service.py 335-344: api_keys is asked for once, before the loop
\* that evaluates the entry
PromptApiKeys ==
    /\ AtPrompt
    /\ CurKind = "api_keys"
    /\ \/ /\ cfg[CurField] # Null
          /\ cfgIdx' = cfgIdx + 1
          /\ lastInput' = "none"
          /\ UNCHANGED <<cfg, cfgPc, errors>>
       \/ /\ cfg[CurField] = Null
          /\ \E lit \in Literals :
                /\ lastInput' = lit
                /\ cfgPc' = AfterApiKeysLiteral(lit)
                /\ cfg' = IF lit = "dict"
                          THEN [cfg EXCEPT ![CurField] = "new"] ELSE cfg
                /\ cfgIdx' = IF lit = "dict" THEN cfgIdx + 1 ELSE cfgIdx
                /\ errors' = IF lit = "nondict" THEN errors + 1 ELSE errors
    /\ file' = FileAfterField(file, cfg', cfgModule)
    /\ UNCHANGED <<file0, cfgModule, cfgRuns, mainVars, validatorVars, auxVars>>

\* run_service.py 337-341: `continue` evaluates the same entry again
ApiKeysLoop ==
    /\ cfgPc = "api_keys_loop"
    /\ errors < MaxErrors
    /\ errors' = errors + 1
    /\ cfgPc' = AfterApiKeysLiteral(lastInput)
    /\ UNCHANGED <<file, file0, cfg, cfgModule, cfgIdx, lastInput, cfgRuns,
                   mainVars, validatorVars, auxVars>>

\* utils.py 293-305, 345: the api keys file is read; a missing file or
\* invalid JSON ends the process with status 1
LoadApiKeys ==
    /\ AtPrompt
    /\ CurKind = "load_api_keys"
    /\ \E readable \in BOOLEAN :
          /\ cfgPc' = IF readable THEN "prompt" ELSE "exit1"
          /\ cfgIdx' = IF readable THEN cfgIdx + 1 ELSE cfgIdx
    /\ lastInput' = "none"
    /\ UNCHANGED <<file, file0, cfg, cfgModule, errors, cfgRuns, mainVars,
                   validatorVars, auxVars>>

\* run_service.py 401, utils.py 379: store()
StoreConfig ==
    /\ cfgPc = "prompt"
    /\ cfgIdx > Len(PromptOrder(cfgModule))
    /\ file' = StoredFile(cfg, cfgModule)
    /\ cfgPc' = "stored"
    /\ UNCHANGED <<file0, cfg, cfgModule, cfgIdx, lastInput, errors, cfgRuns,
                   mainVars, validatorVars, auxVars>>

ConfigNext ==
    \/ StartConfig
    \/ PromptPlain
    \/ PromptDict
    \/ DictLoop
    \/ PromptApiKeys
    \/ ApiKeysLoop
    \/ LoadApiKeys
    \/ StoreConfig

SpecConfig == ConfigInit /\ [][ConfigNext]_vars

\* C20: main probes the RPC endpoint with check_rpc before any balance
\* read, on-chain query or transaction: the probe is the first step of a
\* run that turns to the chain.
C20_RpcProbedFirst ==
    steps # <<>> => steps[1] = "check_rpc"

(***************************************************************************)
(* Properties of the local configuration.                                  *)
(***************************************************************************)
\* C16: a field of the local configuration that is set is never given
\* another value by the program; here agent_id, which deploy_mech stores.
\* Checked under Spec.
C16_FieldsWriteOnce ==
    [][agentId # None => agentId' = agentId]_vars

\* C17: every field that the file holds with a value before a call of
\* get_local_config is in the file that the call's store() writes, with the
\* same value, the fields of the other module's class included.  Checked
\* under SpecConfig.
C17_StoreKeepsEveryField ==
    [][(cfgPc # "stored" /\ cfgPc' = "stored")
       => \A x \in Fields : file0[x] # Null => file'[x] = file0[x]]_vars

\* C18: when get_local_config is left by an exception of the evaluation of
\* an entry or by the exit of load_api_keys, the file is what it was before
\* the call, whatever was entered before.  Checked under SpecConfig.
C18_AbortLeavesFile ==
    cfgPc \in {"raised", "exit1", "dict_loop", "api_keys_loop"} => file = file0

\* a call that obtained the RPC and was then left by an exception
C18_Witness ==
    /\ cfgPc = "raised"
    /\ file0["gnosis_rpc"] = Null
    /\ cfg["gnosis_rpc"] = "new"
    /\ file["gnosis_rpc"] = Null

\* C19: an entry at a prompt for a dict that is malformed or no dict ends
\* the process at once (a message, a status other than zero).  Checked
\* under SpecConfig.
C19_BadEntryExits ==
    [][lastInput' \in {"nondict", "malformed"}
       => cfgPc' \in {"exit1", "raised"}]_vars

(***************************************************************************)
(* Properties of the validator, checked under SpecValidator.               *)
(***************************************************************************)
\* the top-level keys and their types, as the documentation lists them
TopLevelKeys ==
    << <<"name", "str">>, <<"description", "str">>, <<"inputFormat", "str">>,
       <<"outputFormat", "str">>, <<"image", "str">>, <<"tools", "list">>,
       <<"toolMetadata", "dict">> >>

TopLevelMissing(i) == <<TopLevelKeys[i][1]>> \notin DOMAIN doc.ty

TopLevelTyped(i) ==
    /\ ~TopLevelMissing(i)
    /\ doc.ty[<<TopLevelKeys[i][1]>>] = TopLevelKeys[i][2]

TopLevelComplete == \A i \in 1..Len(TopLevelKeys) : TopLevelTyped(i)

\* the keys of toolMetadata
MetadataKeys == {t \in ToolNames : <<"toolMetadata", t>> \in DOMAIN doc.ty}

\* the entry of tool t has every nested key with its type, and as many
\* properties as `required` has entries
ToolEntryComplete(t) ==
    LET props == <<"toolMetadata", t, "output", "schema", "properties">>
    IN  /\ \A e \in ToolTree :
            LET q == <<"toolMetadata", t>> \o e[1]
            IN  q \in DOMAIN doc.ty /\ doc.ty[q] = e[2]
        /\ Cardinality({q \in DOMAIN doc.ty :
                            Len(q) = 6 /\ SubSeq(q, 1, 5) = props})
             = doc.req[t]

WellFormed ==
    /\ TopLevelComplete
    /\ Len(doc.tools) = Cardinality(MetadataKeys)
    /\ \A j \in 1..Len(doc.tools) : ToolEntryComplete(doc.tools[j])

\* C7: a well-formed document (every top-level key with its type, as many
\* tools as toolMetadata keys, a complete entry for each tool) is accepted:
\* the call returns (True, "").
C7_WellFormedAccepted ==
    (result # NoResult /\ WellFormed) => result = Ok

\* a well-formed document with two different tools was accepted
C7_Witness ==
    /\ result = Ok
    /\ WellFormed
    /\ Len(doc.tools) = 2
    /\ doc.tools[1] # doc.tools[2]

\* C8 as stated: whenever a top-level key is missing, the call fails with
\* the message that names the first missing key in schema order.
C8_AnyMissingKeyIsNamed ==
    \A i \in 1..Len(TopLevelKeys) :
        (/\ result # NoResult
         /\ TopLevelMissing(i)
         /\ \A j \in 1..(i - 1) : ~TopLevelMissing(j))
        => result = MissingKey("Missing key in metadata json",
                               TopLevelKeys[i][1], "")

\* C8: when a top-level key is missing and every key before it in schema
\* order is present with the right type, the call fails with the message
\* that names that key; any missing top-level key makes the call fail.
C8_FirstMissingKeyNamed ==
    /\ \A i \in 1..Len(TopLevelKeys) :
          (/\ result # NoResult
           /\ TopLevelMissing(i)
           /\ \A j \in 1..(i - 1) : TopLevelTyped(j))
          => result = MissingKey("Missing key in metadata json",
                                 TopLevelKeys[i][1], "")
    /\ (result # NoResult /\ \E i \in 1..Len(TopLevelKeys) : TopLevelMissing(i))
          => result.status = "fail"

\* a document that lacks toolMetadata and nothing else was rejected
C8_Witness ==
    /\ result = MissingKey("Missing key in metadata json", "toolMetadata", "")
    /\ \A i \in 1..(Len(TopLevelKeys) - 1) : TopLevelTyped(i)
    /\ TopLevelMissing(Len(TopLevelKeys))

\* C9: when every top-level key is present with its type and the number
\* of tools differs from the number of toolMetadata keys, the call fails
\* with the count message carrying both counts, whatever the tool entries
\* are like.
C9_CountMismatchFirst ==
    (/\ result # NoResult
     /\ TopLevelComplete
     /\ Len(doc.tools) # Cardinality(MetadataKeys))
    => result = CountMismatch("Number of tools does not match",
                              Len(doc.tools), Cardinality(MetadataKeys))

\* two tools, one toolMetadata key whose value is a number: the counts were
\* reported and the entry was not looked at
C9_Witness ==
    /\ result = CountMismatch("Number of tools does not match", 2, 1)
    /\ TopLevelComplete
    /\ <<"toolMetadata", "t1">> \in DOMAIN doc.ty
    /\ doc.ty[<<"toolMetadata", "t1">>] = "int"

\* C37: the validator is sound.  When the call returns (True, "") the
\* document has as many tools as toolMetadata keys, every element of tools
\* is a key of toolMetadata, and the entry of each has name, description,
\* input{type, description} and output{type, description,
\* schema{properties{requestId, result, prompt}, required, type}} of the
\* declared types, with as many properties as `required` has entries.  A
\* return that is not a success has status False and a message.
C37_AcceptedIsWellFormed ==
    result # NoResult
    => /\ result.status = "ok"
          => /\ result = Ok
             /\ WellFormed
             /\ \A j \in 1..Len(doc.tools) : doc.tools[j] \in MetadataKeys
       /\ result.status \notin {"ok", "raise"}
          => (result.status = "fail" /\ result.kind # "")

\* a document that names one tool twice and has two complete entries was
\* accepted
C37_Witness ==
    /\ result = Ok
    /\ Len(doc.tools) = 2
    /\ doc.tools[1] = doc.tools[2]
    /\ MetadataKeys = ToolNames


(***************************************************************************)
(* The metadata hash deploy_mech hands to the factory (utils.py 504-509).   *)
(* setup_metadata_hash.py 76-81 makes the text "f01" + hex(multihash): the  *)
(* nine characters f01701220 and the hex digits of the sha2-256 digest.     *)
(* A text is a sequence of characters; a digest has DigestBytes bytes.      *)
(***************************************************************************)
\* bytes of a digest that are explored (32 in the program)
DigestBytes == 2

\* the hex digits a digest is drawn from
HexDigits == {"0", "7", "a", "f"}

\* "f01701220"
HashPrefix == <<"f", "0", "1", "7", "0", "1", "2", "2", "0">>

\* all sequences of n hex digits
RECURSIVE DigitStrings(_)
DigitStrings(n) ==
    IF n = 0 THEN {<<>>}
    ELSE {Append(t, d) : t \in DigitStrings(n - 1), d \in HexDigits}

\* str.lstrip(chars): the leading characters that belong to the set of
\* characters of `chars` are removed, as many as there are
RECURSIVE LStrip(_, _)
LStrip(text, chars) ==
    IF text # <<>> /\ Head(text) \in chars
    THEN LStrip(Tail(text), chars)
    ELSE text

\* bytes.fromhex(text): one byte for two digits; a text of odd length
\* raises ValueError
FromHex(text) ==
    IF Len(text) % 2 = 1
    THEN [ok |-> FALSE, bytes |-> <<>>]
    ELSE [ok |-> TRUE,
          bytes |-> [i \in 1..(Len(text) \div 2) |->
                        <<text[2 * i - 1], text[2 * i]>>]]

\* line 506: bytes.fromhex(local_config.metadata_hash.lstrip("f01701220"))
MetadataHashBytes(text) == FromHex(LStrip(text, Range(HashPrefix)))

\* the configuration holds a metadata hash as setup_metadata_hash made it
HashInit ==
    /\ hashText \in {HashPrefix \o d : d \in DigitStrings(2 * DigestBytes)}
    /\ mechBytes = <<>>
    /\ MainFresh
    /\ ValidatorIdle
    /\ ConfigIdle
    /\ StopIdle
    /\ RaceIdle
    /\ SetupIdle
    /\ TemplateIdle
    /\ EnvIdle
    /\ FeeIdle

\* line 504-509: the argument of `create` is built
EncodeCreate ==
    /\ mechBytes = <<>>
    /\ mechBytes' = <<MetadataHashBytes(hashText)>>
    /\ UNCHANGED <<hashText, mainVars, validatorVars, configVars, stopVars,
                   raceVars, setupVars, tmplVars, envVars, feeVars>>

SpecHash == HashInit /\ [][EncodeCreate]_vars

\* the digits of the digest in a metadata hash
Digest(text) == SubSeq(text, Len(HashPrefix) + 1, Len(text))

\* C25: for every metadata hash f01701220 + digest the bytes handed to
\* `create` are the bytes of the digest: the nine characters of the prefix
\* are removed and nothing else.
C25_CreateGetsDigest ==
    mechBytes # <<>> => mechBytes[1] = FromHex(Digest(hashText))


(***************************************************************************)
(* The stop command: stop_service.main (stop_service.py 35-67).  Between    *)
(* two stop commands the service may be started again (run_service.py       *)
(* 738-757) and writes its database; the database is taken as unchanged     *)
(* while the stop command runs.                                             *)
(***************************************************************************)
\* stop commands that are explored
MaxStops == 2

\* contents of mech.db that are told apart
MaxDb == 2

\* the deletion placed inside `if database_source.is_file()`
AfterBackup_OnlyWithDb(is_file) == IF is_file THEN "delete" ELSE "stopped"

\* line 61-65: stop_service_locally is called after the `if`, whether the
\* database was a file or not
AfterBackup(is_file) == "delete"

\* line 46-49: the rest of main is entered only with local_config.json
AfterCheck_Load(exists) == "load"

\* line 46-49: `if not path.exists(): ... sys.exit(0)`
AfterCheck(exists) == IF exists THEN "load" ELSE "exit0"

\* run_service.py 748-754 without the copy
RestoredDb_Fresh(built, backup) == built

\* run_service.py 748-754: mech.db of the working directory, when it is a
\* file, is copied over the database of the deployment that was built
RestoredDb(built, backup) == IF backup # 0 THEN backup ELSE built

\* the stop command and the start are at rest
StopAtRest == stopPc \in {"idle", "stopped", "exit0", "error"}
StartAtRest == startPc \in {"none", "started", "failed"}

\* the home directory and the working directory the stop command finds
StopInit ==
    /\ stopPc = "idle"
    /\ configFile \in BOOLEAN
    /\ deployment \in BOOLEAN
    /\ dbSource \in 0..MaxDb
    /\ dbSource # 0 => deployment
    /\ dbTarget \in 0..MaxDb
    /\ stopTrace = <<>>
    /\ stops = 0
    /\ stopCalls = {}
    /\ dbAtStop = 0
    /\ startPc = IF deployment THEN "started" ELSE "none"
    /\ startTrace = <<>>
    /\ MainFresh
    /\ ValidatorIdle
    /\ ConfigIdle
    /\ HashIdle
    /\ RaceIdle
    /\ SetupIdle
    /\ TemplateIdle
    /\ EnvIdle
    /\ FeeIdle

stopOthers == <<mainVars, validatorVars, configVars, hashVars, raceVars,
                setupVars, tmplVars, envVars, feeVars>>

\* line 35-43: the command is begun; OperateApp.setup prepares the home
\* directory
StopStart ==
    /\ StopAtRest
    /\ StartAtRest
    /\ stops < MaxStops
    /\ stops' = stops + 1
    /\ stopPc' = "check"
    /\ stopTrace' = <<>>
    /\ stopCalls' = {"setup"}
    /\ dbAtStop' = 0
    /\ UNCHANGED <<configFile, deployment, dbSource, dbTarget, startPc,
                   startTrace, stopOthers>>

\* line 46-49: without local_config.json there is nothing to clean
StopCheck ==
    /\ stopPc = "check"
    /\ stopPc' = AfterCheck(configFile)
    /\ UNCHANGED <<configFile, deployment, dbSource, dbTarget, stopTrace,
                   stops, stopCalls, dbAtStop, startPc, startTrace,
                   stopOthers>>

\* line 51-54: get_local_config, get_service_template, get_service; an
\* exception of one of them leaves main
StopLoad ==
    /\ stopPc = "load"
    /\ \/ /\ stopPc' = "backup"
          /\ stopCalls' = stopCalls \cup {"get_local_config", "get_service"}
       \/ /\ stopPc' = "error"
          /\ \/ stopCalls' = stopCalls \cup {"get_local_config"}
             \/ stopCalls' = stopCalls \cup {"get_local_config",
                                             "get_service"}
    /\ UNCHANGED <<configFile, deployment, dbSource, dbTarget, stopTrace,
                   stops, dbAtStop, startPc, startTrace, stopOthers>>

\* line 57-63: the database of the deployment is copied to the working
\* directory when it is a file; shutil.copy may raise
StopBackup ==
    /\ stopPc = "backup"
    /\ IF dbSource # 0
       THEN /\ stopCalls' = stopCalls \cup {"copy"}
            /\ \/ /\ dbTarget' = dbSource
                  /\ dbAtStop' = dbSource
                  /\ stopTrace' = Append(stopTrace, "backup")
                  /\ stopPc' = AfterBackup(TRUE)
               \/ /\ stopPc' = "error"
                  /\ UNCHANGED <<dbTarget, dbAtStop, stopTrace>>
       ELSE /\ stopPc' = AfterBackup(FALSE)
            /\ UNCHANGED <<dbTarget, dbAtStop, stopTrace, stopCalls>>
    /\ UNCHANGED <<configFile, deployment, dbSource, stops, startPc,
                   startTrace, stopOthers>>

\* line 65: manager.stop_service_locally(hash, delete=True) stops the
\* containers and removes the deployment directory, or raises
StopDelete ==
    /\ stopPc = "delete"
    /\ stopCalls' = stopCalls \cup {"stop_service_locally"}
    /\ \/ /\ deployment' = FALSE
          /\ dbSource' = 0
          /\ stopTrace' = Append(stopTrace, "delete")
          /\ stopPc' = "stopped"
       \/ /\ stopPc' = "error"
          /\ UNCHANGED <<deployment, dbSource, stopTrace>>
    /\ UNCHANGED <<configFile, dbTarget, stops, dbAtStop, startPc,
                   startTrace, stopOthers>>

\* run_service.py 558, 738-745 between two stop commands: the
\* configuration is stored and the deployment is built, with no database
\* yet
ServiceBuild ==
    /\ StopAtRest
    /\ StartAtRest
    /\ ~deployment
    /\ configFile' = TRUE
    /\ deployment' = TRUE
    /\ dbSource' = 0
    /\ startPc' = "built"
    /\ startTrace' = <<"build">>
    /\ UNCHANGED <<stopPc, dbTarget, stopTrace, stops, stopCalls, dbAtStop,
                   stopOthers>>

\* run_service.py 747-754: a backup in the working directory is copied
\* into the deployment; shutil.copy may raise
ServiceRestore ==
    /\ startPc = "built"
    /\ IF dbTarget # 0
       THEN \/ /\ dbSource' = RestoredDb(dbSource, dbTarget)
               /\ startTrace' = Append(startTrace, "restore")
               /\ startPc' = "restored"
            \/ /\ startPc' = "failed"
               /\ UNCHANGED <<dbSource, startTrace>>
       ELSE /\ dbSource' = RestoredDb(dbSource, dbTarget)
            /\ startPc' = "restored"
            /\ UNCHANGED startTrace
    /\ UNCHANGED <<stopPc, configFile, deployment, dbTarget, stopTrace,
                   stops, stopCalls, dbAtStop, stopOthers>>

\* run_service.py 757: service.deployment.start(use_docker=True) starts
\* the containers on the deployment as it stands, or raises
ServiceStart ==
    /\ startPc = "restored"
    /\ \/ /\ startPc' = "started"
          /\ startTrace' = Append(startTrace, "start")
       \/ /\ startPc' = "failed"
          /\ UNCHANGED startTrace
    /\ UNCHANGED <<stopPc, configFile, deployment, dbSource, dbTarget,
                   stopTrace, stops, stopCalls, dbAtStop, stopOthers>>

\* the running service writes its database
ServiceWrites ==
    /\ StopAtRest
    /\ startPc = "started"
    /\ deployment
    /\ \E c \in 1..MaxDb : c # dbSource /\ dbSource' = c
    /\ UNCHANGED <<stopPc, configFile, deployment, dbTarget, stopTrace,
                   stops, stopCalls, dbAtStop, startPc, startTrace,
                   stopOthers>>

StopNext ==
    \/ StopStart
    \/ StopCheck
    \/ StopLoad
    \/ StopBackup
    \/ StopDelete
    \/ ServiceBuild
    \/ ServiceRestore
    \/ ServiceStart
    \/ ServiceWrites

SpecStop == StopInit /\ [][StopNext]_vars

\* C27: a stop command that finds a database file copies it to the backup
\* before it stops and deletes the deployment: the deletion never comes
\* before the backup.  The deletion is made by every stop command that got
\* past the check of the configuration, with or without a database: it
\* ends with the deployment deleted unless a call raised before.
C27_BackupBeforeDeletion ==
    /\ [](stopPc = "stopped"
          => stopTrace \in {<<"delete">>, <<"backup", "delete">>})
    /\ [][/\ deployment' # deployment /\ ~deployment'
             => /\ stopPc = "delete"
                /\ dbSource # 0 => (dbTarget = dbSource /\
                                    stopTrace = <<"backup">>)
          /\ (stopPc = "backup" /\ stopPc' # "error") => stopPc' = "delete"
          /\ stopPc = "delete"
             => \/ stopPc' = "stopped" /\ ~deployment' /\ dbSource' = 0
                \/ stopPc' = "error"
          /\ stopPc = "check"
             => stopPc' = IF configFile THEN "load" ELSE "exit0"]_vars

\* a database was backed up and the deployment deleted after it
C27_Witness ==
    /\ stopPc = "stopped"
    /\ stopTrace = <<"backup", "delete">>
    /\ dbTarget # 0
    /\ ~deployment

C36_NothingWithoutConfig ==
    /\ [](stopPc = "exit0" => (stopCalls = {"setup"} /\ stopTrace = <<>>))
    /\ [][(stopPc = "check" /\ ~configFile)
          => /\ stopPc' = "exit0"
             /\ UNCHANGED <<configFile, deployment, dbSource, dbTarget,
                            stopCalls>>]_vars

\* a stop command without configuration left a running deployment alone
C36_Witness ==
    /\ stopPc = "exit0"
    /\ ~configFile
    /\ deployment
    /\ dbSource # 0
    /\ stopCalls = {"setup"}


(***************************************************************************)
(* Two invocations of run_service.py at once on one home directory.  Each   *)
(* is the sequence of reads and writes of the persisted state that main     *)
(* makes: get_local_config loads local_config.json (295-298) and stores it  *)
(* after the prompts (401); main reads the wallet's Safe (619) and calls    *)
(* create_safe when it found none (640-649).  Nothing in main takes a lock. *)
(* The content of local_config.json is named after the invocation whose     *)
(* entries it holds (3: an earlier one).                                    *)
(***************************************************************************)
\* the configuration an earlier invocation stored
Earlier == 3

\* the object that invocation p stores: the loaded one when a file was
\* found (its fields are set and not asked for), p's entries otherwise
StoredBy(p, loaded) == IF loaded = 0 THEN p ELSE loaded

\* line 640 reading the wallet on disk again
SafeExistsAtCreate_ReadAgain(seen, onDisk) == onDisk

\* line 640: `if not safe_exists` tests the local computed at line 619, not
\* the wallet as it is on disk by then
SafeExistsAtCreate(seen, onDisk) == seen

RaceInit ==
    /\ rPc = [p \in Procs |-> "idle"]
    /\ rCfg = [p \in Procs |-> 0]
    /\ rSeen = [p \in Procs |-> FALSE]
    /\ rFile \in {0, Earlier}
    /\ rSafe \in BOOLEAN
    /\ rSafeCalls = 0
    /\ rStores = <<>>
    /\ MainFresh
    /\ ValidatorIdle
    /\ ConfigIdle
    /\ HashIdle
    /\ StopIdle
    /\ SetupIdle
    /\ TemplateIdle
    /\ EnvIdle
    /\ FeeIdle

raceOthers == <<mainVars, validatorVars, configVars, hashVars, stopVars,
                setupVars, tmplVars, envVars, feeVars>>

\* the operator starts invocation p
RaceStart(p) ==
    /\ rPc[p] = "idle"
    /\ rPc' = [rPc EXCEPT ![p] = "load"]
    /\ UNCHANGED <<rCfg, rSeen, rFile, rSafe, rSafeCalls, rStores,
                   raceOthers>>

\* get_local_config 294-298: the file is loaded when it exists
RaceLoad(p) ==
    /\ rPc[p] = "load"
    /\ rCfg' = [rCfg EXCEPT ![p] = rFile]
    /\ rPc' = [rPc EXCEPT ![p] = "store"]
    /\ UNCHANGED <<rSeen, rFile, rSafe, rSafeCalls, rStores, raceOthers>>

\* get_local_config 300-401: the unset fields are asked for and the object
\* is stored
RaceStore(p) ==
    /\ rPc[p] = "store"
    /\ rCfg' = [rCfg EXCEPT ![p] = StoredBy(p, rCfg[p])]
    /\ rFile' = StoredBy(p, rCfg[p])
    /\ rStores' = Append(rStores, p)
    /\ rPc' = [rPc EXCEPT ![p] = "read_safe"]
    /\ UNCHANGED <<rSeen, rSafe, rSafeCalls, raceOthers>>

\* main 619: safe_exists is computed from the wallet that was loaded
RaceReadSafe(p) ==
    /\ rPc[p] = "read_safe"
    /\ rSeen' = [rSeen EXCEPT ![p] = rSafe]
    /\ rPc' = [rPc EXCEPT ![p] = "create_safe"]
    /\ UNCHANGED <<rCfg, rFile, rSafe, rSafeCalls, rStores, raceOthers>>

\* main 631-649: after the wallet gate create_safe is called when
\* safe_exists was false
RaceCreateSafe(p) ==
    /\ rPc[p] = "create_safe"
    /\ IF CreatesSafe(SafeExistsAtCreate(rSeen[p], rSafe))
       THEN /\ rSafeCalls' = rSafeCalls + 1
            /\ rSafe' = TRUE
       ELSE UNCHANGED <<rSafeCalls, rSafe>>
    /\ rPc' = [rPc EXCEPT ![p] = "done"]
    /\ UNCHANGED <<rCfg, rSeen, rFile, rStores, raceOthers>>

RaceNext ==
    \E p \in Procs :
        \/ RaceStart(p)
        \/ RaceLoad(p)
        \/ RaceStore(p)
        \/ RaceReadSafe(p)
        \/ RaceCreateSafe(p)

SpecRace == RaceInit /\ [][RaceNext]_vars

\* C28: two invocations at once race on the persisted state.  Each acts on
\* what it read itself, whatever the other has written since: it calls
\* create_safe exactly when its own read found no Safe, and its store()
\* makes local_config.json the object it holds, over what the other
\* stored.  Both can so take the ABSENT branch.
C28_InvocationsActOnOwnReads ==
    [][\A p \in Procs :
          /\ (rPc[p] = "create_safe" /\ rPc'[p] = "done")
             => /\ ~rSeen[p] => rSafeCalls' = rSafeCalls + 1
                /\ rSeen[p] => rSafeCalls' = rSafeCalls
          /\ (rPc[p] = "store" /\ rPc'[p] = "read_safe")
             => /\ rFile' = rCfg'[p]
                /\ rCfg'[p] = StoredBy(p, rCfg[p])]_vars

\* both invocations found no file and no Safe: create_safe was called
\* twice, and the file invocation 1 stored was overwritten by 2
C28_Witness ==
    /\ rSafeCalls = 2
    /\ rStores = <<1, 2>>
    /\ rCfg[1] = 1
    /\ rFile = 2
    /\ \A p \in Procs : rPc[p] = "done"


(***************************************************************************)
(* setup_metadata_hash (setup_metadata_hash.py 55-83) on a configuration    *)
(* object that was loaded from local_config.json.  The hash the IPFS node   *)
(* returns is one of Hashes.                                                *)
(***************************************************************************)
\* the metadata files that are explored: complete ones and ones whose
\* tools and toolMetadata do not agree
SetupDocuments ==
    {CompleteDoc(tools, keys) : tools \in ToolLists, keys \in SUBSET ToolNames}

\* line 81-83: local_config.json after the assignment; the function holds
\* no call of store()
FileAfterSetup(onDisk, assigned) == onDisk

SetupInit ==
    /\ setupPc = "idle"
    /\ cfgHash \in {None} \cup Hashes
    /\ fileHash = cfgHash
    /\ doc \in SetupDocuments
    /\ result = NoResult
    /\ MainFresh
    /\ ConfigIdle
    /\ HashIdle
    /\ StopIdle
    /\ RaceIdle
    /\ TemplateIdle
    /\ EnvIdle
    /\ FeeIdle

setupOthers == <<mainVars, configVars, hashVars, stopVars, raceVars, tmplVars,
                 envVars, feeVars>>

\* line 60-65: the path of the metadata file is asked for
SetupStart ==
    /\ setupPc = "idle"
    /\ setupPc' = "validate"
    /\ UNCHANGED <<cfgHash, fileHash, doc, result, setupOthers>>

\* line 67-71: the file is validated; a failure is printed and ends the
\* process with status 1
SetupValidate ==
    /\ setupPc = "validate"
    /\ result' = ValidateMetadataFile(doc)
    /\ setupPc' = CASE result'.status = "ok" -> "push"
                    [] result'.status = "fail" -> "exit1"
                    [] OTHER -> "raised"
    /\ UNCHANGED <<cfgHash, fileHash, doc, setupOthers>>

\* line 73-81: the file is added to IPFS and the hash is assigned to the
\* object; the IPFS client may raise
SetupPush ==
    /\ setupPc = "push"
    /\ \/ \E h \in Hashes :
            /\ cfgHash' = h
            /\ fileHash' = FileAfterSetup(fileHash, h)
            /\ setupPc' = "assigned"
       \/ /\ setupPc' = "raised"
          /\ UNCHANGED <<cfgHash, fileHash>>
    /\ UNCHANGED <<doc, result, setupOthers>>

\* line 83: "Metadata hash successfully generated and stored in config"
SetupReport ==
    /\ setupPc = "assigned"
    /\ setupPc' = "done"
    /\ UNCHANGED <<cfgHash, fileHash, doc, result, setupOthers>>

SetupNext ==
    \/ SetupStart
    \/ SetupValidate
    \/ SetupPush
    \/ SetupReport

SpecSetup == SetupInit /\ [][SetupNext]_vars

\* C31: when setup_metadata_hash has reported success, local_config.json
\* holds the metadata hash that was computed: the assignment was written
\* back before the report.
C31_SetupPersistsHash ==
    setupPc = "done" => (fileHash = cfgHash /\ fileHash # None)


(***************************************************************************)
(* get_service on whole templates (run_service.py 412-441, 502-525).  A     *)
(* template is what get_service_template builds from the configuration:    *)
(* the fields that vary are hash (mech_hash), rpc (gnosis_rpc) and          *)
(* home_chain_id; a record of manager.json holds the same fields.           *)
(***************************************************************************)
Templates ==
    [hash : Hashes, rpc : {"rpc1", "rpc2", "rpc3"},
     home_chain_id : {"100", "10"}]

\* manager.json: empty or one record
TemplateIndexes == {<<>>} \cup {<<r>> : r \in Templates}

\* the hashes of the records
HashesOf(records) == [i \in 1..Len(records) |-> records[i].hash]

\* get_service comparing the whole first record with the template
GetServiceOn_WholeRecord(records, t) ==
    IF Len(records) > 0
    THEN IF records[1] = t THEN "load" ELSE "update"
    ELSE "create"

\* line 501-503: the branch for the template t; of the record and of the
\* template only ["hash"] is read
GetServiceOn(records, t) == GetServiceBranch(HashesOf(records), t.hash)

\* manager.json after the call: update_service and a creating
\* load_or_create write the template, a loading one writes nothing
RecordsAfter(records, t) ==
    CASE GetServiceOn(records, t) = "load" -> records
      [] GetServiceOn(records, t) = "update" -> <<t>>
      [] OTHER -> Append(records, t)

TemplateInit ==
    /\ tmpl \in Templates
    /\ tmplIndex \in TemplateIndexes
    /\ tmplBranch = "none"
    /\ MainFresh
    /\ ValidatorIdle
    /\ ConfigIdle
    /\ HashIdle
    /\ StopIdle
    /\ RaceIdle
    /\ SetupIdle
    /\ EnvIdle
    /\ FeeIdle

\* line 500-525: get_service(manager, template)
GetServiceCall ==
    /\ tmplBranch = "none"
    /\ tmplBranch' = GetServiceOn(tmplIndex, tmpl)
    /\ tmplIndex' = RecordsAfter(tmplIndex, tmpl)
    /\ UNCHANGED <<tmpl, mainVars, validatorVars, configVars, hashVars,
                   stopVars, raceVars, setupVars, envVars, feeVars>>

SpecTemplate == TemplateInit /\ [][GetServiceCall]_vars

\* the index idx2 and the template t2 agree with manager.json and the
\* template of the call in what the claim names: emptiness of the index,
\* hash of its first record, hash of the template
SameKey(idx2, t2) ==
    /\ t2.hash = tmpl.hash
    /\ (idx2 = <<>>) <=> (tmplIndex = <<>>)
    /\ idx2 # <<>> => idx2[1].hash = tmplIndex[1].hash

\* C32: the branch of get_service is a function of whether the index is
\* empty, of the hash of its first record and of the template's hash: any
\* index and template that agree in these take the branch of the call, a
\* template with the hash of the record is loaded whatever its other
\* fields, and a migration is made only for another hash.
C32_BranchDependsOnHashOnly ==
    [][(tmplBranch = "none" /\ tmplBranch' # "none")
       => /\ \A idx2 \in TemplateIndexes, t2 \in Templates :
                SameKey(idx2, t2) => GetServiceOn(idx2, t2) = tmplBranch'
          /\ (tmplIndex # <<>> /\ tmplIndex[1].hash = tmpl.hash)
                => (tmplBranch' = "load" /\ tmplIndex' = tmplIndex)
          /\ tmplBranch' = "update"
                => (tmplIndex # <<>> /\ tmplIndex[1].hash # tmpl.hash)]_vars

\* a template with the record's hash and another rpc was loaded
C32_Witness ==
    /\ tmplBranch = "load"
    /\ tmplIndex[1].hash = tmpl.hash
    /\ tmplIndex[1].rpc # tmpl.rpc


(***************************************************************************)
(* The environment of the launcher: apply_env_vars (run_service.py          *)
(* 405-409) on the map main builds at 724-736.  The four fields of the      *)
(* configuration in the map are set when get_local_config has returned:     *)
(* each is the default or the operator's entry.  A value is its type and    *)
(* its text; os.environ holds texts ("unset": no such variable).            *)
(***************************************************************************)
\* the keys of env_vars whose values are literals or come from the Service
FixedEnv ==
    [SAFE_CONTRACT_ADDRESSES |-> [ty |-> "str", text |-> "{gnosis:safe}"],
     RESET_PAUSE_DURATION |-> [ty |-> "int", text |-> "10"],
     MINIMUM_GAS_BALANCE |-> [ty |-> "float", text |-> "0.02"],
     DB_PATH |-> [ty |-> "str", text |-> "/logs/mech.db"],
     STAKING_TOKEN_CONTRACT_ADDRESS |-> [ty |-> "str", text |-> "staking"]]

\* the keys of env_vars that hold fields of the configuration
ConfigEnvKeys ==
    {"TOOLS_TO_PACKAGE_HASH", "API_KEYS", "MECH_TO_SUBSCRIPTION",
     "MECH_TO_CONFIG"}

EnvKeys == DOMAIN FixedEnv \cup ConfigEnvKeys

\* a variable of the process that env_vars does not name
OtherKey == "PATH"

\* line 724-736: env_vars for a configuration c: key -> dict
EnvVarsOf(c) ==
    [k \in EnvKeys |->
        IF k \in ConfigEnvKeys THEN [ty |-> "dict", text |-> c[k]]
        ELSE FixedEnv[k]]

\* str(value)
Str(value) == value.text

\* os.environ.setdefault: a variable that is set is left
ApplyValue_SetDefault(old, value) ==
    IF old = "unset" THEN Str(value) ELSE old

\* line 408-409: a value that is not None is assigned as str(value)
ApplyValue(old, value) ==
    IF value.ty # "NoneType" THEN Str(value) ELSE old

\* apply_env_vars(env_vars) on the environment env
ApplyEnvVars(env, m) ==
    [k \in DOMAIN env |->
        IF k \in DOMAIN m THEN ApplyValue(env[k], m[k]) ELSE env[k]]

EnvInit ==
    /\ environ \in [EnvKeys \cup {OtherKey} -> {"unset", "stale"}]
    /\ envMap \in {EnvVarsOf(c) :
                        c \in [ConfigEnvKeys -> {"default", "entered"}]}
    /\ envApplied = FALSE
    /\ MainFresh
    /\ ValidatorIdle
    /\ ConfigIdle
    /\ HashIdle
    /\ StopIdle
    /\ RaceIdle
    /\ SetupIdle
    /\ TemplateIdle
    /\ FeeIdle

\* line 737: apply_env_vars(env_vars)
ApplyEnv ==
    /\ ~envApplied
    /\ environ' = ApplyEnvVars(environ, envMap)
    /\ envApplied' = TRUE
    /\ UNCHANGED <<envMap, mainVars, validatorVars, configVars, hashVars,
                   stopVars, raceVars, setupVars, tmplVars, feeVars>>

SpecEnv == EnvInit /\ [][ApplyEnv]_vars

MaxBlocks == 4

\* rewards that are explored: 0..MaxReward
MaxReward == 4

\* values of priority_fee_increase_boundary that are explored, in percent
Boundaries == {50, 150}

IsPositive(reward) == reward > 0

\* line 114-116: sorted(...)
RECURSIVE Insert(_, _)
Insert(x, sorted) ==
    IF sorted = <<>> THEN <<x>>
    ELSE IF x <= Head(sorted) THEN <<x>> \o sorted
    ELSE <<Head(sorted)>> \o Insert(x, Tail(sorted))

RECURSIVE Sorted(_)
Sorted(list) ==
    IF list = <<>> THEN <<>> ELSE Insert(Head(list), Sorted(Tail(list)))

\* line 114-116: the positive rewards in ascending order
Rewards(history) == Sorted(SelectSeq(history, IsPositive))

\* line 121-123: zip(rewards[:-1], rewards[1:])
PercentageIncreases(rewards) ==
    [k \in 1..(Len(rewards) - 1) |->
        IF rewards[k] # 0
        THEN <<(rewards[k + 1] - rewards[k]) * 100, rewards[k]>>
        ELSE <<0, 1>>]

Greater(a, b) == a[1] * b[2] > b[1] * a[2]
Same(a, b) == a[1] * b[2] = b[1] * a[2]

\* line 124: max(*percentage_increases) takes the elements as arguments;
\* with none, and with a single number, max raises TypeError
MaxRaises(increases) == Len(increases) < 2

\* line 124: the greatest of two or more arguments
Max(increases) ==
    CHOOSE x \in {increases[k] : k \in DOMAIN increases} :
        \A k \in DOMAIN increases : ~Greater(increases[k], x)

\* line 125: list.index, counted from 0
IndexOf(increases, x) ==
    (CHOOSE k \in DOMAIN increases :
        /\ Same(increases[k], x)
        /\ \A m \in 1..(k - 1) : ~Same(increases[m], x)) - 1

\* line 127-134: the rewards, or those from the highest increase on
Values(rewards, increases, boundary) ==
    LET highest_increase == Max(increases)
        highest_increase_index == IndexOf(increases, highest_increase)
    IN  IF /\ Greater(highest_increase, <<boundary, 1>>)
           /\ highest_increase_index >= Len(rewards) \div 2
        THEN SubSeq(rewards, highest_increase_index + 1, Len(rewards))
        ELSE rewards

\* line 136: values[len(values) // 2]
Middle(values) == values[(Len(values) \div 2) + 1]

\* line 95-136
EstimatePriorityFee(default, history, boundary) ==
    IF default # <<>> THEN FeeValue(default[1])
    ELSE LET rewards == Rewards(history)
             increases == PercentageIncreases(rewards)
         IN  IF Len(rewards) = 0 THEN FeeNone
             ELSE IF MaxRaises(increases) THEN FeeTypeError
             ELSE FeeValue(Middle(Values(rewards, increases, boundary)))

\* a fee history of up to MaxBlocks blocks, a default or none, a boundary
FeeInit ==
    /\ feeRewards \in UNION {[1..n -> 0..MaxReward] : n \in 0..MaxBlocks}
    /\ feeDefault \in {<<>>} \cup {<<n>> : n \in 0..MaxReward}
    /\ feeBoundary \in Boundaries
    /\ feeResult = NoFee
    /\ MainFresh
    /\ ValidatorIdle
    /\ ConfigIdle
    /\ HashIdle
    /\ StopIdle
    /\ RaceIdle
    /\ SetupIdle
    /\ TemplateIdle
    /\ EnvIdle

\* line 95-136: one call
EstimateFee ==
    /\ feeResult = NoFee
    /\ feeResult' = EstimatePriorityFee(feeDefault, feeRewards, feeBoundary)
    /\ UNCHANGED <<feeRewards, feeDefault, feeBoundary, mainVars,
                   validatorVars, configVars, hashVars, stopVars, raceVars,
                   setupVars, tmplVars, envVars>>

SpecFee == FeeInit /\ [][EstimateFee]_vars

\* the rewards the claim takes the middle of: the sorted positive rewards,
\* or their suffix from the largest increase on when it exceeds the
\* boundary and lies in the upper half
ClaimedValues ==
    LET rewards == Rewards(feeRewards)
        increases == PercentageIncreases(rewards)
    IN  IF Len(increases) = 0 THEN rewards
        ELSE Values(rewards, increases, feeBoundary)

\* C38: estimate_priority_fee returns default_priority_fee when it is not
\* None, None when the fee history has no positive reward, and otherwise
\* one of the positive rewards, the one at index len // 2 of the sorted
\* positive rewards or of their suffix from the largest increase on: a
\* value for every non-empty list of positive rewards, lists of one or two
\* rewards included.
C38_ValueForEveryRewardList ==
    feeResult # NoFee
    => /\ feeDefault # <<>> => feeResult = FeeValue(feeDefault[1])
       /\ (feeDefault = <<>> /\ Rewards(feeRewards) = <<>>)
          => feeResult = FeeNone
       /\ (feeDefault = <<>> /\ Rewards(feeRewards) # <<>>)
          => feeResult = FeeValue(Middle(ClaimedValues))

====
